---- MODULE Spec2Model ----
(***************************************************************************)
(* A model of the opticsLab ray-tracing engine: the geometry kernel, the   *)
(* optical elements, the breadth-first RayTracer and the OpticsScene cache *)
(* around it.                                                              *)
(*                                                                         *)
(* Numbers.  The TypeScript code computes in IEEE doubles.  The model      *)
(* computes in exact rationals <<n, d>> (d > 0, lowest terms) and draws    *)
(* its inputs so that every square root the code takes is the root of a    *)
(* perfect square (3-4-5 directions, refractive index 4/3, axis-parallel   *)
(* surfaces).  A square root of anything else, or a division by zero,      *)
(* stops TLC with an error instead of being approximated.                  *)
(*                                                                         *)
(* Optional values (T | null, T | undefined) are sequences of length 0     *)
(* or 1: Null is <<>>, Some(x) is <<x>>.                                   *)
(***************************************************************************)
EXTENDS Integers, Sequences, FiniteSets, TLC

\* ---------------------------------------------------------------- bounds

\* Largest number of elements a modelled scene holds.
MaxElements == 2
\* Largest number of optical (non-source) elements in a traced element list.
MaxOptical == 2
\* maxRayDepth is drawn from 0 .. MaxDepthSetting (and -1 in the tracer).
MaxDepthSetting == 3
\* simulate()/getImages() calls counted between two mutations.
MaxCalls == 3


\* ------------------------------------------------------------- rationals

Null == <<>>
Some(x) == <<x>>

\* const v = ...; F(v): a local constant of the code, bound once.
With(v, F(_)) == F(v)
\* The same, with v worked out before F is entered, as a statement of the
\* code has run before the next one starts.
Done(v, F(_)) == IF v = v THEN F(v) ELSE F(v)

Abs(a) == IF a < 0 THEN -a ELSE a

RECURSIVE GCD(_, _)
GCD(a, b) == IF b = 0 THEN a ELSE GCD(b, a % b)

\* The rational n/d in lowest terms with a positive denominator.
\* d = 0 is an error (TLC stops on the division by zero).
Rat(n, d) ==
    With(GCD(Abs(n), Abs(d)), LAMBDA g :
        IF d < 0 THEN <<(-n) \div g, (-d) \div g>> ELSE <<n \div g, d \div g>>)

Num(n) == <<n, 1>>
Zero == Num(0)
One == Num(1)
Two == Num(2)
Half == <<1, 2>>

\* Sums and comparisons go through the gcd of the denominators to keep the
\* intermediate products small.
RAdd(a, b) ==
    With(GCD(a[2], b[2]), LAMBDA g :
        Rat(a[1] * (b[2] \div g) + b[1] * (a[2] \div g), (a[2] \div g) * b[2]))
RNeg(a) == <<-a[1], a[2]>>
RSub(a, b) == RAdd(a, RNeg(b))
RMul(a, b) ==
    IF a[1] = 0 \/ b[1] = 0 THEN <<0, 1>>
    ELSE With(GCD(Abs(a[1]), b[2]), LAMBDA g1 :
         With(GCD(Abs(b[1]), a[2]), LAMBDA g2 :
            <<(a[1] \div g1) * (b[1] \div g2), (a[2] \div g2) * (b[2] \div g1)>>))
RDiv(a, b) ==
    IF b[1] = 0 THEN CHOOSE x \in {} : TRUE
    ELSE IF b[1] < 0 THEN RMul(a, <<-b[2], -b[1]>>)
    ELSE RMul(a, <<b[2], b[1]>>)
RAbs(a) == <<Abs(a[1]), a[2]>>
RLt(a, b) ==
    With(GCD(a[2], b[2]), LAMBDA g : a[1] * (b[2] \div g) < b[1] * (a[2] \div g))
RLe(a, b) ==
    With(GCD(a[2], b[2]), LAMBDA g : a[1] * (b[2] \div g) <= b[1] * (a[2] \div g))
RGt(a, b) == RLt(b, a)
RGe(a, b) == RLe(b, a)
RSq(a) == RMul(a, a)
RMin(a, b) == IF RLt(b, a) THEN b ELSE a
\* Math.sign
RSign(a) == IF a[1] > 0 THEN One ELSE IF a[1] < 0 THEN RNeg(One) ELSE Zero

\* floor and Math.round (half rounds up) of a rational, as integers.
Floor(a) == a[1] \div a[2]
Round(a) == (2 * a[1] + a[2]) \div (2 * a[2])

RECURSIVE SqrtSearch(_, _, _)
SqrtSearch(n, lo, hi) ==
    IF lo >= hi THEN lo
    ELSE IF ((lo + hi + 1) \div 2) * ((lo + hi + 1) \div 2) <= n
    THEN SqrtSearch(n, (lo + hi + 1) \div 2, hi)
    ELSE SqrtSearch(n, lo, ((lo + hi + 1) \div 2) - 1)

\* The exact integer square root; an error when n is no perfect square.
ISqrt(n) ==
    With(SqrtSearch(n, 0, IF n < 256 THEN 15 ELSE IF n < 65536 THEN 255
                             ELSE IF n < 16777216 THEN 4095 ELSE 46340), LAMBDA r :
        IF r * r = n THEN r ELSE CHOOSE x \in {} : TRUE)

\* Math.sqrt on a rational whose root is rational.
RSqrt(a) == <<ISqrt(a[1]), ISqrt(a[2])>>

\* Comparisons with the code's tolerances.  1e-6 is the rational 1/10^6; the
\* products are guarded against 32-bit overflow.  1e-10 and 1e-12 are below
\* 2^-31, the smallest positive rational the model can hold, so a non-negative
\* model value is below them exactly when it is zero.
Gt1e6(a) == a[1] > 2000 \/ (a[1] > 0 /\ a[1] * 1000000 > a[2])
Lt1e6(a) == ~(a[1] > 2000) /\ (a[1] <= 0 \/ a[1] * 1000000 < a[2])
LtTiny(a) == a[1] = 0

\* ------------------------------------------------- Geometry.ts primitives

point(x, y) == [x |-> x, y |-> y]
segment(p1, p2) == [p1 |-> p1, p2 |-> p2]
circle(center, radius) == [center |-> center, radius |-> radius]
Pt(x, y) == point(Num(x), Num(y))

hypot(x, y) == RSqrt(RAdd(RSq(x), RSq(y)))

distanceSquared(p1, p2) == RAdd(RSq(RSub(p2.x, p1.x)), RSq(RSub(p2.y, p1.y)))

distance(p1, p2) == hypot(RSub(p2.x, p1.x), RSub(p2.y, p1.y))

segmentMidpoint(seg) ==
    point(RDiv(RAdd(seg.p1.x, seg.p2.x), Two), RDiv(RAdd(seg.p1.y, seg.p2.y), Two))

dot(a, b) == RAdd(RMul(a.x, b.x), RMul(a.y, b.y))
cross(a, b) == RSub(RMul(a.x, b.y), RMul(a.y, b.x))

normalize(p) ==
    With(hypot(p.x, p.y), LAMBDA len :
        IF len = Zero THEN point(Zero, Zero)
        ELSE point(RDiv(p.x, len), RDiv(p.y, len)))

scale(p, s) == point(RMul(p.x, s), RMul(p.y, s))
add(a, b) == point(RAdd(a.x, b.x), RAdd(a.y, b.y))
subtract(a, b) == point(RSub(a.x, b.x), RSub(a.y, b.y))
negate(p) == point(RNeg(p.x), RNeg(p.y))

\* The left-hand normal of p1 -> p2, normalize(point(dy, -dx)).
segmentNormal(seg) ==
    normalize(point(RSub(seg.p2.y, seg.p1.y), RNeg(RSub(seg.p2.x, seg.p1.x))))

\* origin + t * direction
pointAt(rayOrigin, rayDir, t) ==
    point(RAdd(rayOrigin.x, RMul(rayDir.x, t)), RAdd(rayOrigin.y, RMul(rayDir.y, t)))

\* Null, or Some([t, point]) with t > 1e-6 and the segment parameter in [0, 1].
raySegmentIntersection(rayOrigin, rayDir, seg) ==
    With(subtract(seg.p2, seg.p1), LAMBDA d :
    With(cross(rayDir, d), LAMBDA denom :
        IF LtTiny(RAbs(denom)) THEN Null
        ELSE With(subtract(seg.p1, rayOrigin), LAMBDA o :
             With(RDiv(cross(o, d), denom), LAMBDA t :
             With(RDiv(cross(o, rayDir), denom), LAMBDA u :
                IF Gt1e6(t) /\ RGe(u, Zero) /\ RLe(u, One)
                THEN Some([t |-> t, point |-> pointAt(rayOrigin, rayDir, t)])
                ELSE Null)))))

\* One root of the quadratic, as a hit when t > 1e-6.
circleHit(rayOrigin, rayDir, t) ==
    IF Gt1e6(t) THEN <<[t |-> t, point |-> pointAt(rayOrigin, rayDir, t)]>> ELSE <<>>

\* The hits with t > 1e-6 of the ray on the full circle, ascending in t.  When
\* the origin is not inside the circle and the ray leads away from the centre
\* (b >= 0 and disc <= b^2) neither root is positive, whatever the square
\* root is, so the result is empty and the root is not taken.
rayCircleIntersections(rayOrigin, rayDir, c) ==
    With(subtract(rayOrigin, c.center), LAMBDA o :
    With(dot(rayDir, rayDir), LAMBDA a :
    With(RMul(Two, dot(o, rayDir)), LAMBDA b :
    With(RSub(RSq(b), RMul(Num(4), RMul(a, RSub(dot(o, o), RSq(c.radius))))),
         LAMBDA disc :
        IF RLt(disc, Zero) THEN <<>>
        ELSE IF RGe(b, Zero) /\ RLe(disc, RSq(b)) THEN <<>>
        ELSE With(RSqrt(disc), LAMBDA sqrtDisc :
                circleHit(rayOrigin, rayDir,
                          RDiv(RSub(RNeg(b), sqrtDisc), RMul(Two, a)))
                \o circleHit(rayOrigin, rayDir,
                             RDiv(RAdd(RNeg(b), sqrtDisc), RMul(Two, a)))))))) 

pointInCircle(p, c) == RLt(distanceSquared(p, c.center), RSq(c.radius))

line(p1, p2) == [p1 |-> p1, p2 |-> p2]

\* The line through the midpoint of the segment, at right angles to it.
perpendicularBisector(seg) ==
    With(segmentMidpoint(seg), LAMBDA mid :
        line(mid, point(RSub(mid.x, RSub(seg.p2.y, seg.p1.y)),
                        RAdd(mid.y, RSub(seg.p2.x, seg.p1.x)))))

\* Null for parallel lines, else Some(point).
linesIntersection(l1, l2) ==
    With(subtract(l1.p2, l1.p1), LAMBDA d1 :
    With(subtract(l2.p2, l2.p1), LAMBDA d2 :
    With(cross(d1, d2), LAMBDA denom :
        IF LtTiny(RAbs(denom)) THEN Null
        ELSE With(RDiv(cross(subtract(l2.p1, l1.p1), d2), denom), LAMBDA t :
                Some(point(RAdd(l1.p1.x, RMul(d1.x, t)),
                           RAdd(l1.p1.y, RMul(d1.y, t))))))))

\* Where Math.atan2(v.y, v.x) falls: 0 for (-pi, 0), 1 for 0, 2 for (0, pi),
\* 3 for pi.
atan2Range(v) ==
    IF RLt(v.y, Zero) THEN 0
    ELSE IF RGt(v.y, Zero) THEN 2
    ELSE IF RLt(v.x, Zero) THEN 3 ELSE 1

\* Math.atan2(v.y, v.x) < Math.atan2(w.y, w.x), decided without the angles:
\* by the ranges, and within an open half turn by the sense of the turn from
\* v to w.
atan2Less(v, w) ==
    \/ atan2Range(v) < atan2Range(w)
    \/ /\ atan2Range(v) = atan2Range(w)
       /\ atan2Range(v) \in {0, 2}
       /\ RGt(cross(v, w), Zero)

\* Even-odd ray casting towards +x: the edges vertices[j] -> vertices[i], j the
\* index before i, that straddle p.y and cross the line y = p.y to the right
\* of p toggle the answer.
pointInPolygon(p, vertices) ==
    Cardinality(
        {i \in 1 .. Len(vertices) :
            With(vertices[i], LAMBDA vi :
            With(vertices[IF i = 1 THEN Len(vertices) ELSE i - 1], LAMBDA vj :
                /\ RGt(vi.y, p.y) # RGt(vj.y, p.y)
                /\ RLt(p.x, RAdd(RDiv(RMul(RSub(vj.x, vi.x), RSub(p.y, vi.y)),
                                      RSub(vj.y, vi.y)),
                                 vi.x))))}) % 2 = 1

\* Null (total internal reflection) or Some(direction).
refract(direction, normal, n1, n2) ==
    With(RNeg(dot(direction, normal)), LAMBDA cosI :
    With(RDiv(n1, n2), LAMBDA ratio :
    With(RMul(RSq(ratio), RSub(One, RSq(cosI))), LAMBDA sinT2 :
        IF RGt(sinT2, One) THEN Null
        ELSE With(RSub(RMul(ratio, cosI), RSqrt(RSub(One, sinT2))), LAMBDA k :
                Some(add(scale(direction, ratio), scale(normal, k)))))))

\* ((a - b) / (a + b))^2
fresnelTerm(a, b) == RSq(RDiv(RSub(a, b), RAdd(a, b)))

\* <<Rs, Rp>>; <<1, 1>> under total internal reflection.
fresnelReflectance(cosI, n1, n2) ==
    With(RMul(RSq(RDiv(n1, n2)), RSub(One, RSq(cosI))), LAMBDA sinT2 :
        IF RGt(sinT2, One) THEN <<One, One>>
        ELSE With(RSqrt(RSub(One, sinT2)), LAMBDA cosT :
             With(RAbs(cosI), LAMBDA absCosI :
                <<fresnelTerm(RMul(n1, absCosI), RMul(n2, cosT)),
                  fresnelTerm(RMul(n1, cosT), RMul(n2, absCosI))>>)))

\* --------------------------------------------------------------- elements

\* SimulationRay (OpticsTypes.ts).
SimulationRay(origin, direction, bS, bP, gap, isNew, wavelength) ==
    [origin |-> origin, direction |-> direction, brightnessS |-> bS,
     brightnessP |-> bP, gap |-> gap, isNew |-> isNew, wavelength |-> wavelength]

\* IntersectionResult (OpticsTypes.ts).
IntersectionResult(p, t, element, normal) ==
    [point |-> p, t |-> t, element |-> element, normal |-> normal]

\* RayInteractionResult (OpticsTypes.ts); outgoingRay is Null or Some(ray),
\* truncation is Null or Some(number).
RayInteractionResult(isAbsorbed, outgoingRay, newRays) ==
    [isAbsorbed |-> isAbsorbed, outgoingRay |-> outgoingRay,
     newRays |-> newRays, truncation |-> Null]

GREEN_WAVELENGTH == 532
RAY_DENSITY_SCALE == 500
POLARIZATION_SPLIT == Half
FRESNEL_REFLECTION_THRESHOLD == Rat(1, 100)

\* Every element is a record of the same shape; a kind uses the fields its
\* class declares and leaves the others at these defaults.
BaseElement(id, type, category) ==
    [id |-> id, type |-> type, category |-> category,
     p1 |-> Pt(0, 0), p2 |-> Pt(0, 0), p3 |-> Pt(0, 0), p4 |-> Pt(0, 0),
     brightness |-> Zero, wavelength |-> GREEN_WAVELENGTH,
     refIndex |-> One, transRatio |-> Zero, focalLength |-> Zero]

PointSourceElement(id, position, brightness) ==
    [BaseElement(id, "PointSource", "lightSource")
        EXCEPT !.p1 = position, !.brightness = brightness]
SingleRaySource(id, p1, p2, brightness) ==
    [BaseElement(id, "SingleRay", "lightSource")
        EXCEPT !.p1 = p1, !.p2 = p2, !.brightness = brightness]
SegmentMirror(id, p1, p2) ==
    [BaseElement(id, "Mirror", "mirror") EXCEPT !.p1 = p1, !.p2 = p2]
BeamSplitterElement(id, p1, p2, transRatio) ==
    [BaseElement(id, "BeamSplitter", "mirror")
        EXCEPT !.p1 = p1, !.p2 = p2, !.transRatio = transRatio]
IdealCurvedMirror(id, p1, p2, focalLength) ==
    [BaseElement(id, "IdealMirror", "mirror")
        EXCEPT !.p1 = p1, !.p2 = p2, !.focalLength = focalLength]
HalfPlaneGlass(id, p1, p2, refIndex) ==
    [BaseElement(id, "PlaneGlass", "glass")
        EXCEPT !.p1 = p1, !.p2 = p2, !.refIndex = refIndex]
CircleGlass(id, p1, p2, refIndex) ==
    [BaseElement(id, "CircleGlass", "glass")
        EXCEPT !.p1 = p1, !.p2 = p2, !.refIndex = refIndex]
IdealLens(id, p1, p2, focalLength) ==
    [BaseElement(id, "IdealLens", "glass")
        EXCEPT !.p1 = p1, !.p2 = p2, !.focalLength = focalLength]
LineBlocker(id, p1, p2) ==
    [BaseElement(id, "Blocker", "blocker") EXCEPT !.p1 = p1, !.p2 = p2]
CircleBlocker(id, p1, p2) ==
    [BaseElement(id, "CircleBlocker", "blocker") EXCEPT !.p1 = p1, !.p2 = p2]
ApertureElement(id, p1, p2, p3, p4) ==
    [BaseElement(id, "Aperture", "blocker")
        EXCEPT !.p1 = p1, !.p2 = p2, !.p3 = p3, !.p4 = p4]

\* The kinds below are only serialized here, never traced.  A kind with
\* fields beyond the common ones carries them as extra record fields.
BeamSource(id, p1, p2, brightness, emisAngle) ==
    [emisAngle |-> emisAngle] @@
    [BaseElement(id, "Beam", "lightSource")
        EXCEPT !.p1 = p1, !.p2 = p2, !.brightness = brightness]
ArcMirror(id, p1, p2, p3) ==
    [BaseElement(id, "ArcMirror", "mirror") EXCEPT !.p1 = p1, !.p2 = p2, !.p3 = p3]
ParabolicMirror(id, p1, p2, p3) ==
    [BaseElement(id, "ParabolicMirror", "mirror")
        EXCEPT !.p1 = p1, !.p2 = p2, !.p3 = p3]
PolygonGlass(id, path, refIndex) ==
    [path |-> path] @@
    [BaseElement(id, "Glass", "glass") EXCEPT !.refIndex = refIndex]

ARC_SEGMENTS == 40

\* arcPoints for a flat surface (|R| < 1e-10 or R not finite): numSegments + 1
\* points across the aperture, on the line through the lens centre.  The
\* curved branch needs asin, cos and sin and has no arm here.
arcPoints(center, axisDir, perpDir, halfAperture, R, side, numSegments) ==
    CASE R = Zero ->
        [k \in 1 .. numSegments + 1 |->
            With(RMul(RSub(Rat(2 * (k - 1), numSegments), One), halfAperture),
                 LAMBDA h : point(RAdd(center.x, RMul(h, perpDir.x)),
                                  RAdd(center.y, RMul(h, perpDir.y))))]

reverse(s) == [k \in 1 .. Len(s) |-> s[Len(s) + 1 - k]]

buildLensPath(axisP1, axisP2, d, r1, r2) ==
    IF d = Zero THEN <<axisP1>>
    ELSE With(normalize(subtract(axisP2, axisP1)), LAMBDA axisDir :
         With(point(RNeg(axisDir.y), axisDir.x), LAMBDA perpDir :
         With(point(RDiv(RAdd(axisP1.x, axisP2.x), Two),
                    RDiv(RAdd(axisP1.y, axisP2.y), Two)), LAMBDA mid :
            arcPoints(mid, axisDir, perpDir, RDiv(d, Two), r1, RNeg(One), ARC_SEGMENTS)
            \o reverse(arcPoints(mid, axisDir, perpDir, RDiv(d, Two), r2, One,
                                 ARC_SEGMENTS)))))

\* SphericalLens extends PolygonGlass: type and category are the inherited
\* ones, serializedType is the field the subclass declares.
SphericalLens(id, axisP1, axisP2, r1, r2, refIndex) ==
    [serializedType |-> "SphericalLens", axisP1 |-> axisP1, axisP2 |-> axisP2,
     diameter |-> distance(axisP1, axisP2), r1 |-> r1, r2 |-> r2] @@
    PolygonGlass(id, buildLensPath(axisP1, axisP2, distance(axisP1, axisP2), r1, r2),
                 refIndex)

\* ---- serialize
\* One method per class; SphericalLens overrides the one it inherits.

PointSourceElement_serialize(e) ==
    [type |-> e.type, x |-> e.p1.x, y |-> e.p1.y, brightness |-> e.brightness,
     wavelength |-> e.wavelength]
BeamSource_serialize(e) ==
    [type |-> e.type, p1 |-> e.p1, p2 |-> e.p2, brightness |-> e.brightness,
     wavelength |-> e.wavelength, emisAngle |-> e.emisAngle]
SingleRaySource_serialize(e) ==
    [type |-> e.type, p1 |-> e.p1, p2 |-> e.p2, brightness |-> e.brightness,
     wavelength |-> e.wavelength]
SegmentMirror_serialize(e) == [type |-> e.type, p1 |-> e.p1, p2 |-> e.p2]
ArcMirror_serialize(e) == [type |-> e.type, p1 |-> e.p1, p2 |-> e.p2, p3 |-> e.p3]
ParabolicMirror_serialize(e) ==
    [type |-> e.type, p1 |-> e.p1, p2 |-> e.p2, p3 |-> e.p3]
IdealCurvedMirror_serialize(e) ==
    [type |-> e.type, p1 |-> e.p1, p2 |-> e.p2, focalLength |-> e.focalLength]
BeamSplitterElement_serialize(e) ==
    [type |-> e.type, p1 |-> e.p1, p2 |-> e.p2, transRatio |-> e.transRatio]
HalfPlaneGlass_serialize(e) ==
    [type |-> e.type, p1 |-> e.p1, p2 |-> e.p2, refIndex |-> e.refIndex]
CircleGlass_serialize(e) ==
    [type |-> e.type, p1 |-> e.p1, p2 |-> e.p2, refIndex |-> e.refIndex]
PolygonGlass_serialize(e) ==
    [type |-> e.type, path |-> e.path, refIndex |-> e.refIndex]
SphericalLens_serialize(e) ==
    [type |-> e.type, axisP1 |-> e.axisP1, axisP2 |-> e.axisP2, r1 |-> e.r1,
     r2 |-> e.r2, refIndex |-> e.refIndex]
IdealLens_serialize(e) ==
    [type |-> e.type, p1 |-> e.p1, p2 |-> e.p2, focalLength |-> e.focalLength]
LineBlocker_serialize(e) == [type |-> e.type, p1 |-> e.p1, p2 |-> e.p2]
CircleBlocker_serialize(e) == [type |-> e.type, p1 |-> e.p1, p2 |-> e.p2]
ApertureElement_serialize(e) ==
    [type |-> e.type, p1 |-> e.p1, p2 |-> e.p2, p3 |-> e.p3, p4 |-> e.p4]

\* e.serialize(): the method of e's class.  An object with the fields
\* SphericalLens declares is a SphericalLens; every other class is told by
\* its own type.
serialize(e) ==
    IF "serializedType" \in DOMAIN e THEN SphericalLens_serialize(e)
    ELSE CASE e.type = "PointSource" -> PointSourceElement_serialize(e)
           [] e.type = "Beam" -> BeamSource_serialize(e)
           [] e.type = "SingleRay" -> SingleRaySource_serialize(e)
           [] e.type = "Mirror" -> SegmentMirror_serialize(e)
           [] e.type = "ArcMirror" -> ArcMirror_serialize(e)
           [] e.type = "ParabolicMirror" -> ParabolicMirror_serialize(e)
           [] e.type = "IdealMirror" -> IdealCurvedMirror_serialize(e)
           [] e.type = "BeamSplitter" -> BeamSplitterElement_serialize(e)
           [] e.type = "PlaneGlass" -> HalfPlaneGlass_serialize(e)
           [] e.type = "CircleGlass" -> CircleGlass_serialize(e)
           [] e.type = "Glass" -> PolygonGlass_serialize(e)
           [] e.type = "IdealLens" -> IdealLens_serialize(e)
           [] e.type = "Blocker" -> LineBlocker_serialize(e)
           [] e.type = "CircleBlocker" -> CircleBlocker_serialize(e)
           [] e.type = "Aperture" -> ApertureElement_serialize(e)


\* ---- emitRays

\* (sin, cos) of the j-th multiple of 2 pi / steps.  Exact for 1, 2 and 4
\* steps, the only step counts the model draws; anything else is an error.
SinCosTurn(j, steps) ==
    IF steps \notin {1, 2, 4} THEN CHOOSE x \in {} : TRUE
    ELSE With(((4 \div steps) * j) % 4, LAMBDA q :
            CASE q = 0 -> Pt(0, 1)
              [] q = 1 -> Pt(1, 0)
              [] q = 2 -> Pt(0, -1)
              [] q = 3 -> Pt(-1, 0))

\* Math.max(1, Math.floor(rayDensity * RAY_DENSITY_SCALE))
sweepSteps(rayDensity) ==
    With(Floor(RMul(rayDensity, Num(RAY_DENSITY_SCALE))), LAMBDA n :
        IF n > 1 THEN n ELSE 1)

\* The sweep runs while angle < 2 pi - 1e-5 from 0 (steps rays), or in
\* "observer" mode from -2 * angularStep + 1e-6 (steps + 2 rays).  The 1e-6
\* rad offset of the observer sweep is kept in the ray count and dropped from
\* the directions.
PointSourceElement_emitRays(e, rayDensity, mode) ==
    With(sweepSteps(rayDensity), LAMBDA steps :
    With(RMul(RMin(RDiv(e.brightness, rayDensity), One), POLARIZATION_SPLIT),
         LAMBDA b :
        [k \in 1 .. (IF mode = "observer" THEN steps + 2 ELSE steps) |->
            SimulationRay(point(e.p1.x, e.p1.y),
                          SinCosTurn((IF mode = "observer" THEN -2 ELSE 0)
                                     + k - 1 + 2 * steps, steps),
                          b, b, k = 1, TRUE, e.wavelength)]))

SingleRaySource_emitRays(e, rayDensity, mode) ==
    << SimulationRay(point(e.p1.x, e.p1.y), normalize(subtract(e.p2, e.p1)),
                     RMul(Half, e.brightness), RMul(Half, e.brightness),
                     TRUE, TRUE, e.wavelength) >>

\* halfAngle / angularStep: halfAngle is emisAngle / 180 * pi / 2 and
\* angularStep 2 pi / steps, so pi cancels.  The fan angles are kept as
\* multiples of angularStep.
BeamSource_fanRatio(e, steps) == RDiv(RMul(e.emisAngle, Num(steps)), Num(720))

\* The passes of the inner loop, angle = angularStep, 2 angularStep, ...
\* while angle < halfAngle.
BeamSource_fanPasses(ratio) ==
    Cardinality({k \in 1 .. Floor(ratio) + 1 : RLt(Num(k), ratio)})

\* createRay: (sin, cos)(normalAngle + angle) with (sin, cos)(normalAngle) the
\* left-hand unit normal u of p1 -> p2 and angle the j-th multiple of
\* angularStep; brightness min(brightness / rayDensity * brightnessFactor, 1),
\* split over the two polarizations.
BeamSource_createRay(e, origin, u, j, steps, gap, brightnessFactor, rayDensity) ==
    With(SinCosTurn(j, steps), LAMBDA sc :
    With(RMul(RMin(RMul(RDiv(e.brightness, rayDensity), brightnessFactor), One),
              POLARIZATION_SPLIT), LAMBDA b :
        SimulationRay(origin,
                      normalize(point(RAdd(RMul(u.x, sc.y), RMul(u.y, sc.x)),
                                      RSub(RMul(u.y, sc.y), RMul(u.x, sc.x)))),
                      b, b, gap, TRUE, e.wavelength)))

\* The rays of one position: the central one, then for each pass of the inner
\* loop the ray at +angle and the ray at -angle.
BeamSource_raysAt(e, origin, u, steps, passes, first, brightnessFactor, rayDensity) ==
    [m \in 1 .. 1 + 2 * passes |->
        BeamSource_createRay(e, origin, u,
            IF m = 1 THEN 0 ELSE IF m % 2 = 0 THEN m \div 2 ELSE -(m \div 2),
            steps, first /\ m = 1, brightnessFactor, rayDensity)]

RECURSIVE BeamSource_positions(_, _, _, _, _, _, _)
BeamSource_positions(e, i, n, u, steps, ratio, rayDensity) ==
    IF i > n THEN <<>>
    ELSE BeamSource_raysAt(e,
             point(RAdd(e.p1.x, RMul(Rat(2 * i - 1, 2), RDiv(RSub(e.p2.x, e.p1.x), Num(n)))),
                   RAdd(e.p1.y, RMul(Rat(2 * i - 1, 2), RDiv(RSub(e.p2.y, e.p1.y), Num(n))))),
             u, steps, BeamSource_fanPasses(ratio), i = 1,
             RDiv(One, Num(1 + 2 * Floor(ratio))), rayDensity)
         \o BeamSource_positions(e, i + 1, n, u, steps, ratio, rayDensity)

\* n = max(1, round(segLen * rayDensity)) positions at i = 0.5, 1.5, ... steps
\* from p1; numAngledRays = 1 + 2 * floor(halfAngle / angularStep) and
\* brightnessFactor = 1 / numAngledRays.
BeamSource_emitRays(e, rayDensity, mode) ==
    With(distance(e.p1, e.p2), LAMBDA segLen :
        IF LtTiny(segLen) THEN <<>>
        ELSE With(Round(RMul(segLen, rayDensity)), LAMBDA r :
             With(sweepSteps(rayDensity), LAMBDA steps :
                BeamSource_positions(e, 1, IF r > 1 THEN r ELSE 1,
                                     segmentNormal(segment(e.p1, e.p2)), steps,
                                     BeamSource_fanRatio(e, steps), rayDensity))))

emitRays(e, rayDensity, mode) ==
    CASE e.type = "PointSource" -> PointSourceElement_emitRays(e, rayDensity, mode)
      [] e.type = "SingleRay" -> SingleRaySource_emitRays(e, rayDensity, mode)
      [] e.type = "Beam" -> BeamSource_emitRays(e, rayDensity, mode)
      [] OTHER -> <<>>

\* ---- checkRayIntersection

\* A facingRay that returns the geometric normal as it is.
facingRayUnturned(normal, ray) == normal

\* dot(normal, ray.direction) < 0 ? normal : point(-normal.x, -normal.y)
facingRay(normal, ray) ==
    IF RLt(dot(normal, ray.direction), Zero) THEN normal ELSE negate(normal)

\* A geometric hit (Null or Some([t, point])) as Null or an IntersectionResult.
hitResult(hit, e, normal) ==
    IF hit = Null THEN Null
    ELSE Some(IntersectionResult(hit[1].point, hit[1].t, e, normal))

\* SegmentMirror, BeamSplitterElement, IdealCurvedMirror and LineBlocker share
\* this body: the segment hit with the segment normal turned to face the ray.
SegmentMirror_checkRayIntersection(e, ray) ==
    hitResult(raySegmentIntersection(ray.origin, ray.direction, segment(e.p1, e.p2)),
              e, facingRay(segmentNormal(segment(e.p1, e.p2)), ray))

\* HalfPlaneGlass and IdealLens: the segment hit with the raw segment normal.
HalfPlaneGlass_checkRayIntersection(e, ray) ==
    hitResult(raySegmentIntersection(ray.origin, ray.direction, segment(e.p1, e.p2)),
              e, segmentNormal(segment(e.p1, e.p2)))

\* The first circle hit at squared distance >= MIN_RAY_LENGTH_SQ (1e-6).
firstCircleHit(e, ray) ==
    With(SelectSeq(rayCircleIntersections(ray.origin, ray.direction,
                                          circle(e.p1, distance(e.p1, e.p2))),
                   LAMBDA h : ~Lt1e6(distanceSquared(h.point, ray.origin))),
         LAMBDA far : IF far = <<>> THEN Null ELSE Some(far[1]))

\* The outward normal at the hit, turned to face the ray.
CircleBlocker_checkRayIntersection(e, ray) ==
    With(firstCircleHit(e, ray), LAMBDA hit :
        IF hit = Null THEN Null
        ELSE hitResult(hit, e, facingRay(normalize(subtract(hit[1].point, e.p1)), ray)))

\* The raw outward normal at the hit.
CircleGlass_checkRayIntersection(e, ray) ==
    With(firstCircleHit(e, ray), LAMBDA hit :
        IF hit = Null THEN Null
        ELSE hitResult(hit, e, normalize(subtract(hit[1].point, e.p1))))

\* this.vertices: the path without its arc vertices, as points.
PolygonGlass_vertices(e) ==
    With(SelectSeq(e.path, LAMBDA v : ~("arc" \in DOMAIN v /\ v.arc)), LAMBDA kept :
        [k \in 1 .. Len(kept) |-> point(kept[k].x, kept[k].y)])

\* this.edges(): vertex i to vertex i + 1, the last one back to the first.
PolygonGlass_edge(verts, i) ==
    segment(verts[i], verts[IF i = Len(verts) THEN 1 ELSE i + 1])

\* The hit of the edge with the smallest t among the edges hit at squared
\* distance >= MIN_RAY_LENGTH_SQ, the earliest edge on a tie, with that edge's
\* own normal.
PolygonGlass_checkRayIntersection(e, ray) ==
    With(PolygonGlass_vertices(e), LAMBDA verts :
    With([i \in 1 .. Len(verts) |->
            raySegmentIntersection(ray.origin, ray.direction,
                                   PolygonGlass_edge(verts, i))], LAMBDA hits :
    With({i \in 1 .. Len(verts) :
            /\ hits[i] # Null
            /\ ~Lt1e6(distanceSquared(hits[i][1].point, ray.origin))}, LAMBDA valid :
        IF valid = {} THEN Null
        ELSE With(CHOOSE i \in valid :
                      \A k \in valid :
                          \/ RLt(hits[i][1].t, hits[k][1].t)
                          \/ (hits[i][1].t = hits[k][1].t /\ i <= k), LAMBDA best :
                hitResult(hits[best], e,
                          segmentNormal(PolygonGlass_edge(verts, best)))))))

\* Null for collinear points, else Some([center, radius]) of the circle
\* through p1, p2 and p3.
ArcMirror_getArcGeometry(e) ==
    With(linesIntersection(perpendicularBisector(segment(e.p1, e.p3)),
                           perpendicularBisector(segment(e.p2, e.p3))), LAMBDA center :
        IF center = Null THEN Null
        ELSE Some(circle(center[1], distance(center[1], e.p3))))

\* An arc test that compares the angles as they are, without the orders that
\* run through the jump of atan2 from pi to -pi.
ArcMirror_isOnArcNoWrap(e, p, center) ==
    (atan2Less(subtract(e.p1, center), subtract(e.p2, center))
        /\ atan2Less(subtract(e.p2, center), subtract(e.p3, center)))
    = (atan2Less(subtract(e.p1, center), subtract(e.p2, center))
        /\ atan2Less(subtract(e.p2, center), subtract(p, center)))

\* The three orders of (a1, a2, a3) that agree with the cyclic order 1, 2, 3.
ArcMirror_cyclic(v1, v2, v3) ==
    \/ atan2Less(v2, v3) /\ atan2Less(v3, v1)
    \/ atan2Less(v1, v2) /\ atan2Less(v2, v3)
    \/ atan2Less(v3, v1) /\ atan2Less(v1, v2)

\* ccw === onArc: the point is in the same cyclic order with p1 and p2 as p3.
ArcMirror_isOnArc(e, p, center) ==
    ArcMirror_cyclic(subtract(e.p1, center), subtract(e.p2, center),
                     subtract(e.p3, center))
    = ArcMirror_cyclic(subtract(e.p1, center), subtract(e.p2, center),
                       subtract(p, center))

\* The first of the circle hits, in ascending t, that is far enough from the
\* origin and on the arc, with the normal turned to face the ray.
ArcMirror_checkRayIntersection(e, ray) ==
    With(ArcMirror_getArcGeometry(e), LAMBDA geo :
        IF geo = Null THEN Null
        ELSE With(SelectSeq(rayCircleIntersections(ray.origin, ray.direction, geo[1]),
                      LAMBDA h : /\ ~Lt1e6(distanceSquared(h.point, ray.origin))
                                 /\ ArcMirror_isOnArc(e, h.point, geo[1].center)),
                  LAMBDA kept :
                IF kept = <<>> THEN Null
                ELSE hitResult(Some(kept[1]), e,
                        facingRay(normalize(subtract(kept[1].point, geo[1].center)),
                                  ray))))

\* The nearer hit over the two blades p1-p3 and p4-p2, the first blade on a tie.
ApertureElement_nearer(e, ray, hit1, hit2) ==
    IF hit2 # Null /\ (hit1 = Null \/ RLt(hit2[1].t, hit1[1].t))
    THEN hitResult(hit2, e, facingRay(segmentNormal(segment(e.p4, e.p2)), ray))
    ELSE hitResult(hit1, e, facingRay(segmentNormal(segment(e.p1, e.p3)), ray))

ApertureElement_checkRayIntersection(e, ray) ==
    ApertureElement_nearer(e, ray,
        raySegmentIntersection(ray.origin, ray.direction, segment(e.p1, e.p3)),
        raySegmentIntersection(ray.origin, ray.direction, segment(e.p4, e.p2)))

checkRayIntersection(e, ray) ==
    CASE e.type \in {"Mirror", "BeamSplitter", "IdealMirror", "Blocker"} ->
            SegmentMirror_checkRayIntersection(e, ray)
      [] e.type \in {"PlaneGlass", "IdealLens"} ->
            HalfPlaneGlass_checkRayIntersection(e, ray)
      [] e.type = "CircleBlocker" -> CircleBlocker_checkRayIntersection(e, ray)
      [] e.type = "CircleGlass" -> CircleGlass_checkRayIntersection(e, ray)
      [] e.type = "Glass" -> PolygonGlass_checkRayIntersection(e, ray)
      [] e.type = "ArcMirror" -> ArcMirror_checkRayIntersection(e, ray)
      [] e.type = "Aperture" -> ApertureElement_checkRayIntersection(e, ray)
      [] OTHER -> Null

\* ---- onRayIncident

\* direction - 2 (direction . n) n, normalized: the reflected ray the glass
\* kinds, the beam splitter and the curved mirrors build.
reflectedDirection(d, n) ==
    normalize(subtract(d, scale(n, RMul(Two, dot(d, n)))))

\* The reflection formula of SegmentMirror on the reversed incoming direction.
SegmentMirror_reflectedDir(inDir, n) ==
    With(RSq(n.x), LAMBDA nxx :
    With(RSq(n.y), LAMBDA nyy :
    With(RMul(n.x, n.y), LAMBDA nxy :
        point(RSub(RMul(inDir.x, RSub(nyy, nxx)), RMul(RMul(Two, inDir.y), nxy)),
              RSub(RMul(inDir.y, RSub(nxx, nyy)), RMul(RMul(Two, inDir.x), nxy))))))

\* A mirror that sends every ray back the way it came.
SegmentMirror_reversingRay(e, ray, intersection) ==
    RayInteractionResult(FALSE,
        Some(SimulationRay(intersection.point, negate(ray.direction),
                ray.brightnessS, ray.brightnessP, FALSE, FALSE, ray.wavelength)),
        <<>>)

SegmentMirror_onRayIncident(e, ray, intersection) ==
    RayInteractionResult(FALSE,
        Some(SimulationRay(intersection.point,
                normalize(negate(SegmentMirror_reflectedDir(
                    normalize(subtract(ray.origin, intersection.point)),
                    intersection.normal))),
                ray.brightnessS, ray.brightnessP, FALSE, FALSE, ray.wavelength)),
        <<>>)

\* A beam splitter that reflects the whole ray while it transmits its share.
BeamSplitterElement_reflectingAll(e, ray, intersection) ==
    RayInteractionResult(FALSE,
        Some(SimulationRay(intersection.point,
                           point(ray.direction.x, ray.direction.y),
                           RMul(ray.brightnessS, e.transRatio),
                           RMul(ray.brightnessP, e.transRatio),
                           FALSE, FALSE, ray.wavelength)),
        << SimulationRay(intersection.point,
                         reflectedDirection(ray.direction, intersection.normal),
                         ray.brightnessS, ray.brightnessP,
                         TRUE, FALSE, ray.wavelength) >>)

\* A beam splitter that hands the reflected ray on as outgoingRay and the
\* transmitted one as newRays.
BeamSplitterElement_reflectedFirst(e, ray, intersection) ==
    RayInteractionResult(FALSE,
        Some(SimulationRay(intersection.point,
                           reflectedDirection(ray.direction, intersection.normal),
                           RMul(ray.brightnessS, RSub(One, e.transRatio)),
                           RMul(ray.brightnessP, RSub(One, e.transRatio)),
                           TRUE, FALSE, ray.wavelength)),
        << SimulationRay(intersection.point,
                         point(ray.direction.x, ray.direction.y),
                         RMul(ray.brightnessS, e.transRatio),
                         RMul(ray.brightnessP, e.transRatio),
                         FALSE, FALSE, ray.wavelength) >>)

\* The transmitted ray goes on as outgoingRay, the reflected one as newRays.
BeamSplitterElement_onRayIncident(e, ray, intersection) ==
    RayInteractionResult(FALSE,
        Some(SimulationRay(intersection.point,
                           point(ray.direction.x, ray.direction.y),
                           RMul(ray.brightnessS, e.transRatio),
                           RMul(ray.brightnessP, e.transRatio),
                           FALSE, FALSE, ray.wavelength)),
        << SimulationRay(intersection.point,
                         reflectedDirection(ray.direction, intersection.normal),
                         RMul(ray.brightnessS, RSub(One, e.transRatio)),
                         RMul(ray.brightnessP, RSub(One, e.transRatio)),
                         TRUE, FALSE, ray.wavelength) >>)

\* The Fresnel reflection as secondary ray when it is brighter than the
\* threshold.
fresnelSecondary(ray, intersection, n, reflBrightS, reflBrightP) ==
    IF RGt(RAdd(reflBrightS, reflBrightP), FRESNEL_REFLECTION_THRESHOLD)
    THEN << SimulationRay(intersection.point, reflectedDirection(ray.direction, n),
                          reflBrightS, reflBrightP, TRUE, FALSE, ray.wavelength) >>
    ELSE <<>>

\* The tail the Snell's-law glass kinds share once n, n1 and n2 are chosen:
\* total internal reflection, or the refracted primary ray with the Fresnel
\* reflection as secondary ray.
refractAtBoundary(ray, intersection, n, n1, n2) ==
    With(refract(ray.direction, n, n1, n2), LAMBDA refractedDir :
        IF refractedDir = Null
        THEN RayInteractionResult(FALSE,
                Some(SimulationRay(intersection.point,
                                   reflectedDirection(ray.direction, n),
                                   ray.brightnessS, ray.brightnessP, FALSE, FALSE,
                                   ray.wavelength)),
                <<>>)
        ELSE With(fresnelReflectance(RAbs(dot(ray.direction, n)), n1, n2), LAMBDA R :
                RayInteractionResult(FALSE,
                    Some(SimulationRay(intersection.point, normalize(refractedDir[1]),
                                       RMul(ray.brightnessS, RSub(One, R[1])),
                                       RMul(ray.brightnessP, RSub(One, R[2])),
                                       FALSE, FALSE, ray.wavelength)),
                    fresnelSecondary(ray, intersection, n,
                                     RMul(ray.brightnessS, R[1]),
                                     RMul(ray.brightnessP, R[2])))))

\* HalfPlaneGlass takes the side the ray comes from by the sign of
\* cosI = -dot(direction, normal).
HalfPlaneGlass_onRayIncident(e, ray, intersection) ==
    IF RGt(RNeg(dot(ray.direction, intersection.normal)), Zero)
    THEN refractAtBoundary(ray, intersection, intersection.normal, One, e.refIndex)
    ELSE refractAtBoundary(ray, intersection, negate(intersection.normal),
                           e.refIndex, One)

\* CircleGlass takes the side by pointInCircle(ray.origin).
CircleGlass_onRayIncident(e, ray, intersection) ==
    IF pointInCircle(ray.origin, circle(e.p1, distance(e.p1, e.p2)))
    THEN refractAtBoundary(ray, intersection, negate(intersection.normal),
                           e.refIndex, One)
    ELSE refractAtBoundary(ray, intersection, intersection.normal, One, e.refIndex)

\* ArcMirror reflects about the normal of the hit.
ArcMirror_onRayIncident(e, ray, intersection) ==
    RayInteractionResult(FALSE,
        Some(SimulationRay(intersection.point,
                normalize(subtract(ray.direction,
                    scale(intersection.normal,
                          RMul(Two, dot(ray.direction, intersection.normal))))),
                ray.brightnessS, ray.brightnessP, FALSE, FALSE, ray.wavelength)),
        <<>>)

\* PolygonGlass takes the side by pointInPolygon(ray.origin); outside, the
\* normal is turned to face the ray.
PolygonGlass_onRayIncident(e, ray, intersection) ==
    IF pointInPolygon(ray.origin, PolygonGlass_vertices(e))
    THEN refractAtBoundary(ray, intersection, negate(intersection.normal),
                           e.refIndex, One)
    ELSE refractAtBoundary(ray, intersection,
                           IF RGt(dot(ray.direction, intersection.normal), Zero)
                           THEN negate(intersection.normal)
                           ELSE intersection.normal,
                           One, e.refIndex)

\* { ...ray, origin: intersection.point, gap: false, isNew: false }
passThrough(ray, intersection) ==
    RayInteractionResult(FALSE,
        Some([ray EXCEPT !.origin = intersection.point, !.gap = FALSE, !.isNew = FALSE]),
        <<>>)

\* The single outgoing ray of the ideal elements, with the ray's brightness.
deflected(ray, intersection, direction) ==
    RayInteractionResult(FALSE,
        Some(SimulationRay(intersection.point, normalize(direction),
                           ray.brightnessS, ray.brightnessP, FALSE, FALSE,
                           ray.wavelength)),
        <<>>)

\* The unit vector along p1 -> p2.
alongSegment(e, len) ==
    point(RDiv(RSub(e.p2.x, e.p1.x), len), RDiv(RSub(e.p2.y, e.p1.y), len))

\* The mirror-local outgoing direction: the perpendicular component reversed,
\* the parallel one aimed back at the focal-plane position.
IdealCurvedMirror_outDir(e, intersection, par, rayDirPar, rayDirPer) ==
    With(dot(subtract(intersection.point, segmentMidpoint(segment(e.p1, e.p2))), par),
         LAMBDA incidentParallel :
    With(RAdd(incidentParallel, RMul(rayDirPar, RDiv(e.focalLength, rayDirPer))),
         LAMBDA focalParallel :
        add(scale(par, RDiv(RSub(focalParallel, incidentParallel),
                            RDiv(e.focalLength, RNeg(rayDirPer)))),
            scale(intersection.normal, RNeg(rayDirPer)))))

IdealCurvedMirror_onRayIncident(e, ray, intersection) ==
    With(alongSegment(e, distance(e.p1, e.p2)), LAMBDA par :
    With(dot(ray.direction, intersection.normal), LAMBDA rayDirPer :
        IF LtTiny(RAbs(rayDirPer)) THEN passThrough(ray, intersection)
        ELSE deflected(ray, intersection,
                 IdealCurvedMirror_outDir(e, intersection, par,
                                          dot(ray.direction, par), rayDirPer))))

\* The lens-local outgoing direction: the slope changes by -h/f, the
\* perpendicular component keeps its sign.
IdealLens_outDir(e, intersection, par, slopeIn, outDirPer) ==
    With(dot(subtract(intersection.point, segmentMidpoint(segment(e.p1, e.p2))), par),
         LAMBDA h :
        add(scale(par, RMul(RSub(slopeIn, RDiv(h, e.focalLength)), outDirPer)),
            scale(intersection.normal, outDirPer)))

IdealLens_onRayIncident(e, ray, intersection) ==
    With(distance(e.p1, e.p2), LAMBDA len :
        IF LtTiny(len) THEN passThrough(ray, intersection)
        ELSE With(alongSegment(e, len), LAMBDA par :
             With(dot(ray.direction, intersection.normal), LAMBDA rayDirPer :
                IF LtTiny(RAbs(rayDirPer)) THEN passThrough(ray, intersection)
                ELSE deflected(ray, intersection,
                         IdealLens_outDir(e, intersection, par,
                                          RDiv(dot(ray.direction, par), rayDirPer),
                                          RSign(rayDirPer))))))

\* LineBlocker, CircleBlocker, ApertureElement (and the BaseElement default).
Blocker_onRayIncident(e, ray, intersection) ==
    [isAbsorbed |-> TRUE, outgoingRay |-> Null, newRays |-> <<>>,
     truncation |-> Null]

onRayIncident(e, ray, intersection) ==
    CASE e.type = "Mirror" -> SegmentMirror_onRayIncident(e, ray, intersection)
      [] e.type = "BeamSplitter" -> BeamSplitterElement_onRayIncident(e, ray, intersection)
      [] e.type = "PlaneGlass" -> HalfPlaneGlass_onRayIncident(e, ray, intersection)
      [] e.type = "CircleGlass" -> CircleGlass_onRayIncident(e, ray, intersection)
      [] e.type = "Glass" -> PolygonGlass_onRayIncident(e, ray, intersection)
      [] e.type = "ArcMirror" -> ArcMirror_onRayIncident(e, ray, intersection)
      [] e.type = "IdealMirror" -> IdealCurvedMirror_onRayIncident(e, ray, intersection)
      [] e.type = "IdealLens" -> IdealLens_onRayIncident(e, ray, intersection)
      [] e.type \in {"Blocker", "CircleBlocker", "Aperture"} ->
            Blocker_onRayIncident(e, ray, intersection)
      [] e.type \in {"PointSource", "SingleRay"} ->
            Blocker_onRayIncident(e, ray, intersection)
\* ------------------------------------------------------------ RayTracer.ts

MinBrightnessDefault == Rat(1, 100)
DefaultRayDensity == Rat(1, 10)
FarDistance == Num(10000)
CONVERGENCE_THRESHOLD == 5
MaxImagePool == 500

\* DEFAULT_CONFIG overridden by the partial config the caller passes.
RayTracerConfig(maxRayDepth, rayDensity, mode, observer) ==
    [maxRayDepth |-> maxRayDepth, minBrightness |-> MinBrightnessDefault,
     rayDensity |-> rayDensity, mode |-> mode, observer |-> observer]

TracedSegment(p1, p2, ray, isExtension, isObserved) ==
    [p1 |-> p1, p2 |-> p2, brightnessS |-> ray.brightnessS,
     brightnessP |-> ray.brightnessP, wavelength |-> ray.wavelength,
     isExtension |-> isExtension, isObserved |-> isObserved]

QueueEntry(ray, depth) == [ray |-> ray, depth |-> depth]

\* The rays every element emits, in element order.
RECURSIVE collectInitialRays(_, _)
collectInitialRays(elements, config) ==
    IF elements = <<>> THEN <<>>
    ELSE emitRays(Head(elements), config.rayDensity, config.mode)
         \o collectInitialRays(Tail(elements), config)

seedQueue(initialRays) ==
    [k \in 1 .. Len(initialRays) |-> QueueEntry(initialRays[k], 0)]

\* A later element replaces the current nearest also at an equal t.
nearerHitLast(hit, nearest) ==
    IF hit # Null /\ (nearest = Null \/ RLe(hit[1].t, nearest[1].t))
    THEN hit ELSE nearest

\* The nearest hit over the non-lightSource elements; a later element replaces
\* the current nearest only with a strictly smaller t.
nearerHit(hit, nearest) ==
    IF hit # Null /\ (nearest = Null \/ RLt(hit[1].t, nearest[1].t))
    THEN hit ELSE nearest

RECURSIVE nearestFrom(_, _, _)
nearestFrom(elements, ray, nearest) ==
    IF elements = <<>> THEN nearest
    ELSE nearestFrom(Tail(elements), ray,
            IF Head(elements).category = "lightSource" THEN nearest
            ELSE nearerHit(checkRayIntersection(Head(elements), ray), nearest))

findNearestIntersection(elements, ray) == nearestFrom(elements, ray, Null)

backPoint(ray) == add(ray.origin, scale(ray.direction, RNeg(FarDistance)))

\* A backward extension recorded whatever the gap flag says.
extensionSegmentAlways(ray) ==
    << TracedSegment(ray.origin, backPoint(ray), ray, TRUE, FALSE) >>

\* The backward extension of a ray that did not come out of a gap.
extensionSegment(ray) ==
    IF ray.gap THEN <<>>
    ELSE << TracedSegment(ray.origin, backPoint(ray), ray, TRUE, FALSE) >>

\* The segments recordEscapedRay appends.
recordEscapedRay(config, ray) ==
    << TracedSegment(ray.origin, add(ray.origin, scale(ray.direction, FarDistance)),
                     ray, FALSE, FALSE) >>
    \o (IF config.mode \in {"extended", "images"} THEN extensionSegment(ray) ELSE <<>>)

\* The segments processExtendedRay appends.
processExtendedRay(ray) == extensionSegment(ray)

\* perpDist < radius (decided on the squares) and projLen^2 < rayLen.
observerNear(observer, ray, intersection, projLen) ==
    /\ RGt(observer.radius, Zero)
    /\ RLt(distanceSquared(add(ray.origin, scale(ray.direction, projLen)),
                           observer.position),
           RSq(observer.radius))
    /\ RLt(RSq(projLen), distanceSquared(ray.origin, intersection.point))

\* Whether processObserverRay finds the observer on the ray before the hit.
observerSeesRay(observer, ray, intersection) ==
    With(dot(subtract(observer.position, ray.origin), ray.direction), LAMBDA projLen :
        ~RLt(projLen, Zero) /\ observerNear(observer, ray, intersection, projLen))

\* processObserverRay applied to the segments of this entry (the forward
\* segment is the last one): marks it observed and appends the half-bright
\* observed extension.
processObserverRay(observer, ray, intersection, segments) ==
    IF observerSeesRay(observer, ray, intersection)
    THEN [segments EXCEPT ![Len(segments)].isObserved = TRUE]
         \o << [p1 |-> ray.origin, p2 |-> backPoint(ray),
                brightnessS |-> RMul(ray.brightnessS, Half),
                brightnessP |-> RMul(ray.brightnessP, Half),
                wavelength |-> ray.wavelength,
                isExtension |-> TRUE, isObserved |-> TRUE] >>
    ELSE segments

\* The segments recorded for a hit before the observer is consulted.
forwardSegments(config, ray, intersection) ==
    << TracedSegment(ray.origin, intersection.point, ray, FALSE, FALSE) >>
    \o (IF config.mode \in {"extended", "images"} THEN processExtendedRay(ray) ELSE <<>>)

\* Observer logic that falls back to a default observer when none is set.
observedSegmentsDefaulting(config, ray, intersection, segments) ==
    IF config.mode = "observer"
    THEN processObserverRay(IF config.observer # Null THEN config.observer[1]
                            ELSE [position |-> Pt(3, 5), radius |-> Num(20)],
                            ray, intersection, segments)
    ELSE segments

observedSegments(config, ray, intersection, segments) ==
    IF config.mode = "observer" /\ config.observer # Null
    THEN processObserverRay(config.observer[1], ray, intersection, segments)
    ELSE segments

\* New entries go in front of the waiting ones.
enqueueInFront(waiting, pushed) == pushed \o waiting

\* queue.push for every new entry: behind the waiting ones.
enqueue(waiting, pushed) == waiting \o pushed

\* A push that keeps the parent's depth.
pushedEntriesSameDepth(result, depth) ==
    (IF ~result.isAbsorbed /\ result.outgoingRay # Null
     THEN << QueueEntry(result.outgoingRay[1], depth) >> ELSE <<>>)
    \o [k \in 1 .. Len(result.newRays) |-> QueueEntry(result.newRays[k], depth)]

\* A push that skips a depth.
pushedEntriesSkipping(result, depth) ==
    (IF ~result.isAbsorbed /\ result.outgoingRay # Null
     THEN << QueueEntry(result.outgoingRay[1], depth + 2) >> ELSE <<>>)
    \o [k \in 1 .. Len(result.newRays) |-> QueueEntry(result.newRays[k], depth + 2)]

\* A push of the primary outgoing ray only.
pushedEntriesPrimaryOnly(result, depth) ==
    IF ~result.isAbsorbed /\ result.outgoingRay # Null
    THEN << QueueEntry(result.outgoingRay[1], depth + 1) >> ELSE <<>>

\* The queue entries processRayEntry pushes for an interaction result.
pushedEntries(result, depth) ==
    (IF ~result.isAbsorbed /\ result.outgoingRay # Null
     THEN << QueueEntry(result.outgoingRay[1], depth + 1) >> ELSE <<>>)
    \o [k \in 1 .. Len(result.newRays) |-> QueueEntry(result.newRays[k], depth + 1)]

\* A cut-off that is not counted as truncation.
truncatedUncounted(outcome, totalBrightness) ==
    [truncation |-> Zero, segments |-> <<>>, pushed |-> <<>>,
     outcome |-> outcome, hit |-> Null]

\* A ray cut off at the depth cap or the brightness floor.
truncated(outcome, totalBrightness) ==
    [truncation |-> totalBrightness, segments |-> <<>>, pushed |-> <<>>,
     outcome |-> outcome, hit |-> Null]

\* A hit that counts the brightness a blocker absorbs as truncation.
processHitCountingAbsorbed(config, ray, depth, intersection, result) ==
    [truncation |-> IF result.isAbsorbed THEN RAdd(ray.brightnessS, ray.brightnessP)
                    ELSE Zero,
     segments |-> observedSegments(config, ray, intersection[1],
                                   forwardSegments(config, ray, intersection[1])),
     pushed |-> pushedEntries(result, depth),
     outcome |-> "hit", hit |-> intersection]

\* The part of processRayEntry after the nearest hit is found.
processHit(config, ray, depth, intersection, result) ==
    [truncation |-> IF result.truncation = Null THEN Zero ELSE result.truncation[1],
     segments |-> observedSegments(config, ray, intersection[1],
                                   forwardSegments(config, ray, intersection[1])),
     pushed |-> pushedEntries(result, depth),
     outcome |-> "hit", hit |-> intersection]

\* The part of processRayEntry after its two early returns.
processRayBody(elements, config, ray, depth) ==
    With(findNearestIntersection(elements, ray), LAMBDA intersection :
        IF intersection = Null
        THEN [truncation |-> Zero, segments |-> recordEscapedRay(config, ray),
              pushed |-> <<>>, outcome |-> "escaped", hit |-> Null]
        ELSE processHit(config, ray, depth, intersection,
                 onRayIncident(intersection[1].element, ray, intersection[1])))

\* processRayEntry without the depth cap.
processRayEntryNoCap(elements, config, ray, depth) ==
    IF RLt(RAdd(ray.brightnessS, ray.brightnessP), config.minBrightness)
    THEN truncated("floor", RAdd(ray.brightnessS, ray.brightnessP))
    ELSE processRayBody(elements, config, ray, depth)

\* processRayEntry without the brightness floor.
processRayEntryNoFloor(elements, config, ray, depth) ==
    IF depth >= config.maxRayDepth
    THEN truncated("depthCap", RAdd(ray.brightnessS, ray.brightnessP))
    ELSE processRayBody(elements, config, ray, depth)

\* What processRayEntry does for one dequeued entry: the number it returns
\* (truncation), the segments it appends and the entries it pushes.  outcome
\* and hit only name the branch taken.
processRayEntry(elements, config, ray, depth) ==
    IF depth >= config.maxRayDepth
    THEN truncated("depthCap", RAdd(ray.brightnessS, ray.brightnessP))
    ELSE IF RLt(RAdd(ray.brightnessS, ray.brightnessP), config.minBrightness)
    THEN truncated("floor", RAdd(ray.brightnessS, ray.brightnessP))
    ELSE processRayBody(elements, config, ray, depth)

\* ---- image detection

DetectedImage(position, imageType, brightness) ==
    [position |-> position, imageType |-> imageType, brightness |-> brightness]

\* The grid cell of a crossing point.
gridKey(p) ==
    << Round(RDiv(p.x, Num(CONVERGENCE_THRESHOLD))),
       Round(RDiv(p.y, Num(CONVERGENCE_THRESHOLD))) >>

\* The crossing point of the lines of two rays that are not parallel.
crossing(r1, r2, denom) ==
    pointAt(r1.origin, r1.direction,
            RDiv(cross(subtract(r2.origin, r1.origin), r2.direction), denom))

\* The two loops without the set of grid cells seen: every crossing pair
\* reports an image.
RECURSIVE convergeFromUnseen(_, _, _, _, _, _)
convergeFromUnseen(rays, imageType, i, j, seen, images) ==
    IF i > Len(rays) \/ i > 500 THEN images
    ELSE IF j > Len(rays) \/ j > 500
    THEN convergeFromUnseen(rays, imageType, i + 1, i + 2, seen, images)
    ELSE With(cross(rays[i].direction, rays[j].direction), LAMBDA denom :
            IF LtTiny(RAbs(denom))
            THEN convergeFromUnseen(rays, imageType, i, j + 1, seen, images)
            ELSE convergeFromUnseen(rays, imageType, i, j + 1, seen,
                     Append(images,
                         DetectedImage(crossing(rays[i], rays[j], denom), imageType,
                             RDiv(RAdd(rays[i].brightness, rays[j].brightness),
                                  Two)))))

\* The inner loop of findConvergencePoints for ray i, from j on, 1-based:
\* the grid cells seen and the images appended when it ends.
RECURSIVE convergeRow(_, _, _, _, _, _)
convergeRow(rays, imageType, i, j, seen, images) ==
    IF j > Len(rays) \/ j > MaxImagePool
    THEN [seen |-> seen, images |-> images]
    ELSE With(cross(rays[i].direction, rays[j].direction), LAMBDA denom :
            IF LtTiny(RAbs(denom))
            THEN convergeRow(rays, imageType, i, j + 1, seen, images)
            ELSE With(crossing(rays[i], rays[j], denom), LAMBDA p :
                    IF gridKey(p) \in seen
                    THEN convergeRow(rays, imageType, i, j + 1, seen, images)
                    ELSE convergeRow(rays, imageType, i, j + 1,
                             seen \cup {gridKey(p)},
                             Append(images,
                                 DetectedImage(p, imageType,
                                     RDiv(RAdd(rays[i].brightness, rays[j].brightness),
                                          Two))))))

\* The two nested loops of findConvergencePoints from (i, j) on, 1-based, with
\* the grid cells seen so far; returns the images appended.
RECURSIVE convergeFrom(_, _, _, _, _, _)
convergeFrom(rays, imageType, i, j, seen, images) ==
    IF i > Len(rays) \/ i > MaxImagePool THEN images
    ELSE Done(convergeRow(rays, imageType, i, j, seen, images), LAMBDA row :
            convergeFrom(rays, imageType, i + 1, i + 2, row.seen, row.images))

findConvergencePoints(rays, imageType) ==
    convergeFrom(rays, imageType, 1, 2, {}, <<>>)

\* The ray { origin, direction, brightness } detectImages builds per segment.
segmentRay(seg) ==
    [origin |-> seg.p1, direction |-> normalize(subtract(seg.p2, seg.p1)),
     brightness |-> RAdd(seg.brightnessS, seg.brightnessP)]

\* segments.map(segmentRay)
mapSegmentRays(segments) ==
    [k \in 1 .. Len(segments) |-> segmentRay(segments[k])]

\* The images detectImages appends: real ones from the forward pool, then
\* virtual ones from the pool of extensions.
detectImages(segments) ==
    Done(mapSegmentRays(SelectSeq(segments, LAMBDA s : ~s.isExtension)),
         LAMBDA forwardRays :
    Done(mapSegmentRays(SelectSeq(segments, LAMBDA s : s.isExtension)),
         LAMBDA backwardRays :
        findConvergencePoints(forwardRays, "real")
        \o findConvergencePoints(backwardRays, "virtual")))

\* The TraceResult trace() returns once the queue has drained.
TraceResult(config, segments, initialRays, truncation) ==
    [segments |-> segments, rays |-> initialRays,
     images |-> IF config.mode = "images" THEN detectImages(segments) ELSE <<>>,
     truncationError |-> truncation]

\* The while loop of trace(): shift an entry, process it, until the queue is
\* empty.
RECURSIVE drainQueue(_, _, _, _, _)
drainQueue(elements, config, queue, allSegments, totalTruncation) ==
    IF queue = <<>>
    THEN [segments |-> allSegments, truncation |-> totalTruncation]
    ELSE With(processRayEntry(elements, config, Head(queue).ray, Head(queue).depth),
              LAMBDA r :
                drainQueue(elements, config, enqueue(Tail(queue), r.pushed),
                           allSegments \o r.segments,
                           RAdd(totalTruncation, r.truncation)))

\* RayTracer.trace() as one function of the element list and the config.
trace(elements, config) ==
    With(collectInitialRays(elements, config), LAMBDA initialRays :
    With(drainQueue(elements, config, seedQueue(initialRays), <<>>, Zero), LAMBDA d :
        TraceResult(config, d.segments, initialRays, d.truncation)))

\* ------------------------------------------------------- modelled inputs

Modes == {"rays", "extended", "images", "observer"}

\* Light sources.  The single rays run along the y axis or along a 3-4-5
\* direction; the point source is traced at densities that give 2 or 4 rays.
RayUp == SingleRaySource(1, Pt(0, 0), Pt(0, 20), One)
RayOblique == SingleRaySource(2, Pt(0, 0), Pt(4, 3), One)
RayDim == SingleRaySource(3, Pt(0, 0), Pt(0, 20), Rat(1, 200))
Lamp == PointSourceElement(4, Pt(0, 0), Rat(1, 500))
RayInside == SingleRaySource(5, Pt(0, 20), Pt(4, 17), One)
RayFaint == SingleRaySource(20, Pt(0, 0), Pt(0, 20), Rat(3, 200))

\* Optical elements, all on horizontal lines above or below the sources.
MirrorTop == SegmentMirror(6, Pt(-30, 10), Pt(30, 10))
MirrorBottom == SegmentMirror(7, Pt(-30, -10), Pt(30, -10))
Splitter == BeamSplitterElement(8, Pt(-30, 5), Pt(30, 5), Half)
Blocker == LineBlocker(9, Pt(-30, 8), Pt(30, 8))
Glass == HalfPlaneGlass(10, Pt(-30, 6), Pt(30, 6), Rat(4, 3))

\* Blockers that a ray along the y axis meets at the same t as a mirror: a
\* circle touching the top mirror, ahead of it in the element order, and an
\* aperture lying on the bottom mirror, behind it.
ShadeTop == CircleBlocker(21, Pt(0, 15), Pt(5, 15))
ShadeBottom == ApertureElement(22, Pt(-30, -10), Pt(30, -10), Pt(10, -10), Pt(20, -10))

SourceCatalogue == <<RayUp, RayOblique, RayDim, Lamp, RayInside, RayFaint>>
OpticalCatalogue ==
    <<ShadeTop, MirrorTop, MirrorBottom, ShadeBottom, Splitter, Blocker, Glass>>

Range(s) == {s[k] : k \in 1 .. Len(s)}

Densities == {Rat(1, 250), Rat(1, 125)}
TheObserver == [position |-> point(Num(3), Num(5)), radius |-> Num(20)]
\* A second observer, given to setObserver only, with the default radius.
SideObserver == [position |-> Pt(0, 5), radius |-> Num(20)]
Observers == {TheObserver, SideObserver}

\* ----------------------------------------------------------------- state

VARIABLES
    \* OpticsScene
    elements,        \* the element list, in insertion order
    settings,        \* SceneSettings
    cachedResult,    \* Null or Some(TraceResult)
    dirty,
    \* what the caller of the scene has seen since the last mutation
    returned,        \* Null, or Some([op, result]) of the last simulate()/getImages()/toJSON()
    traceRuns,       \* tracer runs since the last mutation
    simCalls,        \* simulate()/getImages() calls since the last mutation
    \* RayTracer, one trace() step by step
    tracerElements,  \* this.elements
    config,          \* this.config
    pc,              \* "start", "loop" or "done"
    initialRays,
    queue,
    allSegments,
    totalTruncation,
    traceResult,     \* Null or Some(TraceResult)
    last,            \* Null, or what the last processRayEntry call did
    iterations,      \* steps trace() has taken
    \* one ray against one element
    pRay,
    pElement,
    pStage,          \* "new", "checked" or "incident"
    pHit,            \* checkRayIntersection's result: Null or Some(IntersectionResult)
    pResult          \* Null or Some(RayInteractionResult)

sceneVars == <<elements, settings, cachedResult, dirty, returned, traceRuns, simCalls>>
tracerVars == <<tracerElements, config, pc, initialRays, queue, allSegments,
                totalTruncation, traceResult, last, iterations>>
probeVars == <<pRay, pElement, pStage, pHit, pResult>>
vars == <<elements, settings, cachedResult, dirty, returned, traceRuns, simCalls,
          tracerElements, config, pc, initialRays, queue, allSegments,
          totalTruncation, traceResult, last, iterations,
          pRay, pElement, pStage, pHit, pResult>>

\* ------------------------------------------------------------ OpticsScene

DefaultMaxRayDepth == 200
DefaultGridSize == 20

DEFAULT_SETTINGS ==
    [mode |-> "rays", rayDensity |-> DefaultRayDensity,
     maxRayDepth |-> DefaultMaxRayDepth, showGrid |-> FALSE, snapToGrid |-> FALSE,
     gridSize |-> DefaultGridSize, observer |-> Null]

\* A Partial<SceneSettings>: each field is Null (absent) or Some(value).
Partial(mode, rayDensity, maxRayDepth, observer) ==
    [mode |-> mode, rayDensity |-> rayDensity, maxRayDepth |-> maxRayDepth,
     observer |-> observer]

Opt(S) == {Null} \cup {Some(x) : x \in S}

DepthSettings == {0, MaxDepthSetting}

Partials ==
    {Partial(m, r, d, o) : m \in Opt(Modes), r \in Opt(Densities),
                           d \in Opt(DepthSettings), o \in Opt({Null, Some(TheObserver)})}

\* { ...base, ...partial }
mergeSettings(base, partial) ==
    [base EXCEPT
        !.mode = IF partial.mode = Null THEN @ ELSE partial.mode[1],
        !.rayDensity = IF partial.rayDensity = Null THEN @ ELSE partial.rayDensity[1],
        !.maxRayDepth = IF partial.maxRayDepth = Null THEN @ ELSE partial.maxRayDepth[1],
        !.observer = IF partial.observer = Null THEN @ ELSE partial.observer[1]]

\* The config simulate() hands to the tracer.
sceneConfig(s) == RayTracerConfig(s.maxRayDepth, s.rayDensity, s.mode, s.observer)

SceneCatalogue == <<RayUp, Lamp, MirrorTop>>

\* An invalidate() that sets the flag and keeps the stored result.
InvalidatedKeepingResult ==
    /\ dirty' = TRUE
    /\ cachedResult' = cachedResult
    /\ returned' = Null
    /\ traceRuns' = 0
    /\ simCalls' = 0

\* invalidate(): dirty and no cached result; the caller's history starts anew.
Invalidated ==
    /\ dirty' = TRUE
    /\ cachedResult' = Null
    /\ returned' = Null
    /\ traceRuns' = 0
    /\ simCalls' = 0

addElement(element) ==
    /\ Len(elements) < MaxElements
    /\ elements' = Append(elements, element)
    /\ Invalidated
    /\ UNCHANGED <<settings, tracerVars, probeVars>>

\* Removes the first element with the id; nothing changes when there is none.
removeElement(elementId) ==
    LET found == {k \in 1 .. Len(elements) : elements[k].id = elementId}
        index == CHOOSE k \in found : \A j \in found : k <= j
    IN  IF found = {}
        THEN UNCHANGED vars
        ELSE /\ elements' = SubSeq(elements, 1, index - 1)
                            \o SubSeq(elements, index + 1, Len(elements))
             /\ Invalidated
             /\ UNCHANGED <<settings, tracerVars, probeVars>>

clearElements ==
    /\ elements' = <<>>
    /\ Invalidated
    /\ UNCHANGED <<settings, tracerVars, probeVars>>

updateSettings(partial) ==
    /\ settings' = mergeSettings(settings, partial)
    /\ Invalidated
    /\ UNCHANGED <<elements, tracerVars, probeVars>>

\* A setMode that forgets invalidate().
setModeKeepingCache(mode) ==
    /\ settings' = [settings EXCEPT !.mode = mode]
    /\ UNCHANGED <<elements, cachedResult, dirty, returned, traceRuns, simCalls,
                   tracerVars, probeVars>>

setMode(mode) ==
    /\ settings' = [settings EXCEPT !.mode = mode]
    /\ Invalidated
    /\ UNCHANGED <<elements, tracerVars, probeVars>>

setRayDensity(density) ==
    /\ settings' = [settings EXCEPT !.rayDensity = density]
    /\ Invalidated
    /\ UNCHANGED <<elements, tracerVars, probeVars>>

setObserver(position, radius) ==
    /\ settings' = [settings EXCEPT
                        !.observer = Some([position |-> position, radius |-> radius]),
                        !.mode = IF @ # "observer" THEN "observer" ELSE @]
    /\ Invalidated
    /\ UNCHANGED <<elements, tracerVars, probeVars>>

\* A clearObserver() that removes the observer and leaves the mode alone.
clearObserverKeepingMode ==
    /\ settings' = [settings EXCEPT !.observer = Null]
    /\ Invalidated
    /\ UNCHANGED <<elements, tracerVars, probeVars>>

\* A clearObserver() that always goes back to "rays".
clearObserverToRays ==
    /\ settings' = [settings EXCEPT !.observer = Null, !.mode = "rays"]
    /\ Invalidated
    /\ UNCHANGED <<elements, tracerVars, probeVars>>

clearObserver ==
    /\ settings' = [settings EXCEPT
                        !.observer = Null,
                        !.mode = IF @ = "observer" THEN "rays" ELSE @]
    /\ Invalidated
    /\ UNCHANGED <<elements, tracerVars, probeVars>>

invalidate ==
    /\ Invalidated
    /\ UNCHANGED <<elements, settings, tracerVars, probeVars>>

\* simulate() called as `op`: the cached result when the scene is clean,
\* otherwise a fresh trace that is stored and clears the dirty flag.
\* A simulate() that ignores the cache and traces on every call.
runSimulateUncached(op) ==
    With(trace(elements, sceneConfig(settings)), LAMBDA res :
        /\ cachedResult' = Some(res)
        /\ dirty' = FALSE
        /\ traceRuns' = traceRuns + 1
        /\ returned' = Some([op |-> op, result |-> res]))

\* A simulate() that leaves the dirty flag as it finds it.
runSimulateKeepingDirty(op) ==
    With(~dirty /\ cachedResult # Null, LAMBDA cached :
    With(IF cached THEN cachedResult[1]
         ELSE trace(elements, sceneConfig(settings)), LAMBDA res :
        /\ cachedResult' = Some(res)
        /\ dirty' = dirty
        /\ traceRuns' = IF cached THEN traceRuns ELSE traceRuns + 1
        /\ returned' = Some([op |-> op, result |-> res])))

\* The body of simulate(): the cached result when the scene is clean, otherwise
\* a fresh trace that is stored and clears the dirty flag.  op names the API
\* call the caller made.
runSimulate(op) ==
    With(~dirty /\ cachedResult # Null, LAMBDA cached :
    With(IF cached THEN cachedResult[1]
         ELSE trace(elements, sceneConfig(settings)), LAMBDA res :
        /\ cachedResult' = Some(res)
        /\ dirty' = FALSE
        /\ traceRuns' = IF cached THEN traceRuns ELSE traceRuns + 1
        /\ returned' = Some([op |-> op, result |-> res])))

simulate ==
    /\ simCalls < MaxCalls
    /\ runSimulate("simulate")
    /\ simCalls' = simCalls + 1
    /\ UNCHANGED <<elements, settings, tracerVars, probeVars>>

\* getImages() returns simulate().images.
getImages ==
    /\ simCalls < MaxCalls
    /\ runSimulate("getImages")
    /\ simCalls' = simCalls + 1
    /\ UNCHANGED <<elements, settings, tracerVars, probeVars>>

\* ------------------------------------------------------- RayTracer.trace()

\* new RayTracer(elements, config)
TracerIdle ==
    /\ tracerElements = <<>>
    /\ config = sceneConfig(DEFAULT_SETTINGS)
    /\ pc = "done"
    /\ initialRays = <<>>
    /\ queue = <<>>
    /\ allSegments = <<>>
    /\ totalTruncation = Zero
    /\ traceResult = Null
    /\ last = Null
    /\ iterations = 0

\* trace(), lines 81-93: collect the emitted rays and seed the queue.
traceBegin ==
    /\ pc = "start"
    /\ initialRays' = collectInitialRays(tracerElements, config)
    /\ queue' = seedQueue(initialRays')
    /\ pc' = "loop"
    /\ iterations' = iterations + 1
    /\ UNCHANGED <<tracerElements, config, allSegments, totalTruncation,
                   traceResult, last, sceneVars, probeVars>>

\* One iteration of the while loop: queue.shift() and processRayEntry.
traceStep ==
    /\ pc = "loop"
    /\ queue # <<>>
    /\ With(processRayEntry(tracerElements, config, Head(queue).ray, Head(queue).depth),
            LAMBDA r :
          /\ queue' = enqueue(Tail(queue), r.pushed)
          /\ allSegments' = allSegments \o r.segments
          /\ totalTruncation' = RAdd(totalTruncation, r.truncation)
          /\ last' = Some([ray |-> Head(queue).ray, depth |-> Head(queue).depth,
                           outcome |-> r.outcome, hit |-> r.hit,
                           pushed |-> r.pushed, segments |-> r.segments,
                           truncation |-> r.truncation]))
    /\ iterations' = iterations + 1
    /\ UNCHANGED <<tracerElements, config, pc, initialRays, traceResult, sceneVars,
                   probeVars>>

\* The queue has drained: detect images in "images" mode and return.
traceFinish ==
    /\ pc = "loop"
    /\ queue = <<>>
    /\ traceResult' = Some(TraceResult(config, allSegments, initialRays, totalTruncation))
    /\ pc' = "done"
    /\ iterations' = iterations + 1
    /\ UNCHANGED <<tracerElements, config, initialRays, queue, allSegments,
                   totalTruncation, last, sceneVars, probeVars>>

\* ------------------------------------------------ one ray on one element

\* A ray as an element's methods receive it from the tracer.
ProbeRay(origin, direction) ==
    SimulationRay(origin, direction, Half, Half, FALSE, FALSE, GREEN_WAVELENGTH)

Up == Pt(0, 1)
Down == Pt(0, -1)
UpSteep == point(Rat(3, 5), Rat(4, 5))
UpFlat == point(Rat(4, 5), Rat(3, 5))
UpFlatLeft == point(Rat(-4, 5), Rat(3, 5))
DownSteep == point(Rat(3, 5), Rat(-4, 5))
DownFlat == point(Rat(4, 5), Rat(-3, 5))

\* Rays towards the line y = 10 from below and from above, one parallel to it
\* and one leading away from it.  The directions from below enter a glass of
\* index 4/3 above the line at sin = 0 or 4/5, the ones from above leave it at
\* sin = 0, 3/5 or 4/5.
RaysFromBelow ==
    {ProbeRay(o, d) : o \in {Pt(0, 4), Pt(-4, 4)}, d \in {Up, UpFlat, UpFlatLeft}}
RaysFromAbove ==
    {ProbeRay(o, d) : o \in {Pt(0, 16), Pt(4, 16)}, d \in {Down, DownSteep, DownFlat}}
RaysMissing == {ProbeRay(Pt(0, 0), Pt(1, 0)), ProbeRay(Pt(0, 0), Down)}
RaysFromZero == {ProbeRay(Pt(0, 0), Up)}
SegmentRays == RaysFromBelow \cup RaysFromAbove \cup RaysMissing \cup RaysFromZero

\* Every segment kind on the line from (-10, 10) to (10, 10).
SegmentElements ==
    {SegmentMirror(11, Pt(-10, 10), Pt(10, 10)),
     BeamSplitterElement(12, Pt(-10, 10), Pt(10, 10), Rat(1, 4)),
     LineBlocker(13, Pt(-10, 10), Pt(10, 10)),
     HalfPlaneGlass(14, Pt(-10, 10), Pt(10, 10), Rat(4, 3)),
     ApertureElement(15, Pt(-10, 10), Pt(10, 10), Pt(-2, 10), Pt(2, 10)),
     IdealCurvedMirror(16, Pt(-10, 10), Pt(10, 10), Num(10)),
     RayUp}

\* A mirror of length 10 that rises from (-3, 6) to (3, 14): its unit normal
\* is (-4/5, 3/5).
TiltedMirrorElements == {SegmentMirror(17, Pt(-3, 6), Pt(3, 14))}

\* The ideal lens of focal length 10 on the same line: rays along the axis,
\* through the centre, and parallel to the axis at height 15/2.
LensElements == {IdealLens(17, Pt(-10, 10), Pt(10, 10), Num(10))}
LensRays ==
    {ProbeRay(Pt(0, 0), Up), ProbeRay(Pt(0, 20), Down),
     ProbeRay(Pt(-8, 4), UpFlat), ProbeRay(Pt(-6, 2), UpSteep),
     ProbeRay(point(Rat(15, 2), Zero), Up), ProbeRay(point(Rat(-15, 2), Num(20)), Down),
     ProbeRay(Pt(0, 0), Pt(1, 0))}

\* The circle of radius 5 around (0, 10): rays through the centre from outside
\* and from the centre, and for the blocker a tangent and an oblique chord.
RaysThroughCentre ==
    {ProbeRay(Pt(0, 0), Up), ProbeRay(Pt(0, 10), Up), ProbeRay(Pt(0, 10), UpSteep),
     ProbeRay(Pt(0, 10), DownFlat), ProbeRay(Pt(0, 0), Down)}
RaysOffCentre == {ProbeRay(Pt(5, 0), Up), ProbeRay(Pt(0, 2), UpSteep)}
CircleGlassElements == {CircleGlass(18, Pt(0, 10), Pt(5, 10), Rat(4, 3))}
CircleBlockerElements == {CircleBlocker(19, Pt(0, 10), Pt(5, 10))}

\* Arc mirrors on the circle of radius 5 around (0, 0): p1, p2 and p3 any
\* three of eight points of the circle, among them four pairs of opposite
\* points and the point (-5, 0) where atan2 is pi.  The rays leave the centre
\* towards each of the eight points, or cross the whole circle.
ArcPoints ==
    {Pt(5, 0), Pt(3, 4), Pt(0, 5), Pt(-4, 3), Pt(-5, 0), Pt(-3, -4), Pt(0, -5),
     Pt(4, -3)}
ArcMirrorElements ==
    {ArcMirror(23, a, b, c) : <<a, b, c>> \in {t \in ArcPoints \X ArcPoints \X ArcPoints :
                                  t[1] # t[2] /\ t[1] # t[3] /\ t[2] # t[3]}}
RaysToArc ==
    {ProbeRay(Pt(0, 0), point(RDiv(q.x, Num(5)), RDiv(q.y, Num(5)))) : q \in ArcPoints}
    \cup {ProbeRay(Pt(0, -10), Up), ProbeRay(Pt(-10, 0), Pt(1, 0))}

\* The ideal mirror of focal length 10 on the line from (-10, 10) to (10, 10)
\* with an oblique ray that hits its midpoint.
IdealMirrorElements == {IdealCurvedMirror(16, Pt(-10, 10), Pt(10, 10), Num(10))}
RaysToMidpoint == {ProbeRay(Pt(-8, 4), UpFlat)}

\* A ray that the circle glass refracted inwards at the foot of the circle:
\* it starts on the boundary and crosses the glass through the centre.
RaysFromCircleBoundary == {ProbeRay(Pt(0, 5), Up)}

\* The rectangle glass of index 4/3 with corners (0, 0) and (4, 3), counter-
\* clockwise: rays arriving from outside, rays starting strictly inside, and
\* rays that start on an edge and cross the interior, as a ray refracted in
\* through that edge does.
PolygonGlassElements ==
    {PolygonGlass(20, <<Pt(0, 0), Pt(4, 0), Pt(4, 3), Pt(0, 3)>>, Rat(4, 3))}
RaysIntoPolygon ==
    {ProbeRay(Pt(-1, 6), DownFlat), ProbeRay(Pt(2, 5), Down),
     ProbeRay(Pt(-2, 1), Pt(1, 0)), ProbeRay(Pt(2, -2), Up)}
RaysInsidePolygon ==
    {ProbeRay(Pt(2, 1), Up), ProbeRay(Pt(2, 1), Down), ProbeRay(Pt(1, 1), Pt(1, 0))}
RaysFromPolygonEdge ==
    {ProbeRay(Pt(3, 3), DownSteep), ProbeRay(Pt(2, 3), Down),
     ProbeRay(Pt(1, 0), UpSteep), ProbeRay(Pt(0, 1), Pt(1, 0)),
     ProbeRay(Pt(4, 1), Pt(-1, 0))}

ProbePairs ==
    (SegmentRays \X (SegmentElements \cup TiltedMirrorElements))
    \cup (LensRays \X LensElements)
    \cup ((RaysThroughCentre \cup RaysFromCircleBoundary) \X CircleGlassElements)
    \cup ((RaysIntoPolygon \cup RaysInsidePolygon \cup RaysFromPolygonEdge)
             \X PolygonGlassElements)
    \cup (RaysToMidpoint \X IdealMirrorElements)
    \cup (RaysToArc \X ArcMirrorElements)
    \cup ((RaysThroughCentre \cup RaysOffCentre) \X CircleBlockerElements)

ProbeIdle ==
    /\ pRay = ProbeRay(Pt(0, 0), Up)
    /\ pElement = RayUp
    /\ pStage = "incident"
    /\ pHit = Null
    /\ pResult = Null

\* element.checkRayIntersection(ray)
probeIntersection ==
    /\ pStage = "new"
    /\ pHit' = checkRayIntersection(pElement, pRay)
    /\ pStage' = "checked"
    /\ UNCHANGED <<pRay, pElement, pResult, sceneVars, tracerVars>>

\* intersection.element.onRayIncident(ray, intersection)
probeIncident ==
    /\ pStage = "checked"
    /\ pHit # Null
    /\ pResult' = Some(onRayIncident(pHit[1].element, pRay, pHit[1]))
    /\ pStage' = "incident"
    /\ UNCHANGED <<pRay, pElement, pHit, sceneVars, tracerVars>>

\* --------------------------------------------------------- specifications

\* The scene: new OpticsScene(partial), then any sequence of API calls.
Init ==
    /\ elements = <<>>
    /\ \E partial \in Partials :
          /\ partial.rayDensity # Null
          /\ settings = mergeSettings(DEFAULT_SETTINGS, partial)
    /\ cachedResult = Null
    /\ dirty = TRUE
    /\ returned = Null
    /\ traceRuns = 0
    /\ simCalls = 0
    /\ TracerIdle
    /\ ProbeIdle

Next ==
    \/ \E element \in Range(SceneCatalogue) : addElement(element)
    \/ \E element \in Range(SceneCatalogue) : removeElement(element.id)
    \/ clearElements
    \/ \E partial \in Partials : updateSettings(partial)
    \/ \E mode \in Modes : setMode(mode)
    \/ \E density \in Densities : setRayDensity(density)
    \/ \E o \in Observers : setObserver(o.position, o.radius)
    \/ clearObserver
    \/ invalidate
    \/ simulate
    \/ getImages

Spec == Init /\ [][Next]_vars

\* The tracer: new RayTracer(elements, config) over the modelled element
\* lists and configs, then one trace().
TraceDepths == -1 .. MaxDepthSetting

TraceOpticals ==
    {SelectSeq(OpticalCatalogue, LAMBDA e : e.id \in S) :
        S \in {T \in SUBSET {e.id : e \in Range(OpticalCatalogue)} :
                  Cardinality(T) <= MaxOptical}}

TraceConfigs ==
    {RayTracerConfig(d, Rat(1, 250), m, o) :
        d \in TraceDepths, m \in Modes, o \in {Null, Some(TheObserver)}}

SceneIdle ==
    /\ elements = <<>>
    /\ settings = DEFAULT_SETTINGS
    /\ cachedResult = Null
    /\ dirty = TRUE
    /\ returned = Null
    /\ traceRuns = 0
    /\ simCalls = 0

TraceInit ==
    /\ SceneIdle
    /\ ProbeIdle
    /\ \E source \in Range(SourceCatalogue), optical \in TraceOpticals :
          tracerElements = <<source>> \o optical
    /\ config \in {c \in TraceConfigs : c.observer = Null \/ c.mode = "observer"}
    /\ pc = "start"
    /\ initialRays = <<>>
    /\ queue = <<>>
    /\ allSegments = <<>>
    /\ totalTruncation = Zero
    /\ traceResult = Null
    /\ last = Null
    /\ iterations = 0

TraceNext == traceBegin \/ traceStep \/ traceFinish

TraceSpec == TraceInit /\ [][TraceNext]_vars

\* trace() is synchronous: as long as it has not returned it takes its next
\* step.  Every step of TraceNext is a step of traceTick and traceTick is
\* enabled exactly when one of them is.
traceTick == pc # "done" /\ iterations' = iterations + 1

TraceLive == TraceSpec /\ WF_iterations(traceTick)

\* One element method call after the other on one ray and one element.
ProbeInit ==
    /\ SceneIdle
    /\ TracerIdle
    /\ \E pair \in ProbePairs : pRay = pair[1] /\ pElement = pair[2]
    /\ pStage = "new"
    /\ pHit = Null
    /\ pResult = Null

ProbeNext == probeIntersection \/ probeIncident

ProbeSpec == ProbeInit /\ [][ProbeNext]_vars

\* Beams of brightness 1/500 over a segment of length 250, upright or level,
\* with spread angles from 0 to 360 degrees.
BeamAngles == {0, 90, 180, 270, 360}
BeamCatalogue ==
    {BeamSource(50, Pt(0, -125), Pt(0, 125), Rat(1, 500), Num(a)) : a \in BeamAngles}
    \cup {BeamSource(51, Pt(-125, 0), Pt(125, 0), Rat(1, 500), Num(a)) : a \in BeamAngles}

\* The tracer over one beam and nothing else, at the densities that give
\* one position and two fan steps per turn, or two positions and four.
EmitInit ==
    /\ SceneIdle
    /\ ProbeIdle
    /\ \E source \in BeamCatalogue : tracerElements = <<source>>
    /\ config \in {RayTracerConfig(MaxDepthSetting, density, mode, Null) :
                      density \in Densities, mode \in {"rays", "extended"}}
    /\ pc = "start"
    /\ initialRays = <<>>
    /\ queue = <<>>
    /\ allSegments = <<>>
    /\ totalTruncation = Zero
    /\ traceResult = Null
    /\ last = Null
    /\ iterations = 0

EmitSpec == EmitInit /\ [][TraceNext]_vars

\* toJSON(): the snapshot is the value the JSON text denotes, the settings
\* field by field and the elements mapped through serialize() in list order.
\* Nothing of the scene changes.
toJSON ==
    /\ returned' =
          Some([op |-> "toJSON",
                result |->
                    [settings |->
                        [mode |-> settings.mode, rayDensity |-> settings.rayDensity,
                         maxRayDepth |-> settings.maxRayDepth,
                         showGrid |-> settings.showGrid,
                         snapToGrid |-> settings.snapToGrid,
                         gridSize |-> settings.gridSize,
                         observer |-> settings.observer],
                     elements |-> [k \in 1 .. Len(elements) |-> serialize(elements[k])]]])
    /\ UNCHANGED <<elements, settings, cachedResult, dirty, traceRuns, simCalls,
                   tracerVars, probeVars>>

\* One element of each class, under the name of its class.
KindCatalogue ==
    <<[kind |-> "PointSourceElement",
       element |-> PointSourceElement(31, Pt(0, 0), Half)],
      [kind |-> "BeamSource",
       element |-> BeamSource(32, Pt(0, -2), Pt(0, 2), Half, Zero)],
      [kind |-> "SingleRaySource",
       element |-> SingleRaySource(33, Pt(0, 0), Pt(4, 3), One)],
      [kind |-> "SegmentMirror",
       element |-> SegmentMirror(34, Pt(-30, 10), Pt(30, 10))],
      [kind |-> "ArcMirror",
       element |-> ArcMirror(35, Pt(-5, 10), Pt(5, 10), Pt(0, 12))],
      [kind |-> "ParabolicMirror",
       element |-> ParabolicMirror(36, Pt(-5, 10), Pt(5, 10), Pt(0, 12))],
      [kind |-> "IdealCurvedMirror",
       element |-> IdealCurvedMirror(37, Pt(-5, 10), Pt(5, 10), Num(10))],
      [kind |-> "BeamSplitterElement",
       element |-> BeamSplitterElement(38, Pt(-5, 10), Pt(5, 10), Half)],
      [kind |-> "HalfPlaneGlass",
       element |-> HalfPlaneGlass(39, Pt(-30, 6), Pt(30, 6), Rat(4, 3))],
      [kind |-> "CircleGlass",
       element |-> CircleGlass(40, Pt(0, 15), Pt(5, 15), Rat(3, 2))],
      [kind |-> "PolygonGlass",
       element |-> PolygonGlass(41, <<Pt(0, 0), Pt(4, 0), Pt(0, 3)>>, Rat(3, 2))],
      [kind |-> "SphericalLens",
       element |-> SphericalLens(42, Pt(-5, 20), Pt(5, 20), Zero, Zero, Rat(3, 2))],
      [kind |-> "IdealLens",
       element |-> IdealLens(43, Pt(-5, 10), Pt(5, 10), Num(10))],
      [kind |-> "LineBlocker",
       element |-> LineBlocker(44, Pt(-5, 10), Pt(5, 10))],
      [kind |-> "CircleBlocker",
       element |-> CircleBlocker(45, Pt(0, 15), Pt(5, 15))],
      [kind |-> "ApertureElement",
       element |-> ApertureElement(46, Pt(-30, -10), Pt(30, -10), Pt(10, -10),
                                   Pt(20, -10))]>>

\* The snapshots of a scene: new OpticsScene(), elements of any class added,
\* toJSON() at any point.
SnapshotInit ==
    /\ elements = <<>>
    /\ settings = DEFAULT_SETTINGS
    /\ cachedResult = Null
    /\ dirty = TRUE
    /\ returned = Null
    /\ traceRuns = 0
    /\ simCalls = 0
    /\ TracerIdle
    /\ ProbeIdle

SnapshotNext ==
    \/ \E entry \in Range(KindCatalogue) : addElement(entry.element)
    \/ toJSON

SnapshotSpec == SnapshotInit /\ [][SnapshotNext]_vars

\* ---------------------------------------------------------------- claims

\* C1: when simulate() is called again with no scene mutation since the last
\* simulate()/getImages() call, it returns the very TraceResult that call
\* returned, which is the cached one, and the tracer does not run again.
C1_CacheIdempotent ==
    [][(returned # Null /\ simCalls' = simCalls + 1 /\ returned'[1].op = "simulate")
         => /\ returned'[1].result = returned[1].result
            /\ cachedResult # Null
            /\ returned'[1].result = cachedResult[1]
            /\ traceRuns' = traceRuns]_vars

\* simulate() was called at least twice on an unchanged scene with a mirror and
\* a source, and returned a result with segments.
C1_Witness ==
    /\ returned # Null
    /\ returned[1].op = "simulate"
    /\ simCalls >= 2
    /\ traceRuns = 1
    /\ elements = <<RayUp, MirrorTop>>
    /\ Len(returned[1].result.segments) >= 2

\* C2: whatever API calls came before, the result simulate() or getImages()
\* has just returned is the trace of the current element list under the
\* current settings, and every call that changes the element list or the
\* settings leaves the scene dirty with no cached result.
C2_NeverStale ==
    /\ [](returned # Null
            => returned[1].result = trace(elements, sceneConfig(settings)))
    /\ [][(elements' # elements \/ settings' # settings)
            => (dirty' /\ cachedResult' = Null)]_vars

\* A result was returned after the scene had been built up and its settings
\* changed from the defaults.
C2_Witness ==
    /\ returned # Null
    /\ elements = <<Lamp, MirrorTop>>
    /\ settings.mode = "extended"
    /\ settings.rayDensity = Rat(1, 125)
    /\ settings.maxRayDepth = MaxDepthSetting
    /\ Len(returned[1].result.segments) >= 5

\* C3: between two consecutive mutations the tracer runs at most once, and a
\* run of the tracer happens only on a dirty scene and leaves it clean.
C3_OneTracePerBatch ==
    /\ [](traceRuns <= 1)
    /\ [][traceRuns' # traceRuns /\ traceRuns' # 0 => (dirty /\ ~dirty')]_vars

\* Three simulate()/getImages() calls in a row, the last one getImages(), and
\* one run of the tracer.
C3_Witness ==
    /\ simCalls >= 3
    /\ traceRuns = 1
    /\ returned # Null
    /\ returned[1].op = "getImages"
    /\ elements # <<>>

\* brightnessS + brightnessP
combined(ray) == RAdd(ray.brightnessS, ray.brightnessP)

RECURSIVE sumCombined(_)
sumCombined(entries) ==
    IF entries = <<>> THEN Zero
    ELSE RAdd(combined(Head(entries).ray), sumCombined(Tail(entries)))

\* An entry of depth d below the cap can leave at most two entries of depth
\* d + 1, so it weighs 2^(cap - d + 1) - 1; an entry at the cap weighs 1.
weight(depth, cap) == IF depth >= cap THEN 1 ELSE 2 ^ (cap - depth + 1) - 1

RECURSIVE queueWeight(_, _)
queueWeight(entries, cap) ==
    IF entries = <<>> THEN 0
    ELSE weight(Head(entries).depth, cap) + queueWeight(Tail(entries), cap)

\* C4: trace() terminates: the queue drains and trace() returns, because every
\* iteration of the loop lowers the summed weight of the queue entries, with
\* branching elements and with lossless mirrors facing each other.
C4_Terminates ==
    /\ <>(pc = "done")
    /\ [][(pc = "loop" /\ queue # <<>>)
            => queueWeight(queue', config.maxRayDepth)
               < queueWeight(queue, config.maxRayDepth)]_vars

\* A finished trace of a ray between a mirror and a beam splitter that was cut
\* at the depth cap.
C4_Witness ==
    /\ pc = "done"
    /\ tracerElements = <<RayUp, MirrorTop, Splitter>>
    /\ config.maxRayDepth >= 3
    /\ Len(allSegments) >= 5
    /\ RGt(totalTruncation, Zero)

\* C5: with maxRayDepth >= 0 every queue entry has 0 <= depth <= maxRayDepth;
\* the entries seeded from emission have depth 0 and the entries pushed while
\* processing an entry of depth d have depth d + 1.
C5_DepthBounded ==
    /\ config.maxRayDepth >= 0
          => \A k \in 1 .. Len(queue) :
                0 <= queue[k].depth /\ queue[k].depth <= config.maxRayDepth
    /\ last = Null => \A k \in 1 .. Len(queue) : queue[k].depth = 0
    /\ last # Null
          => \A k \in 1 .. Len(last[1].pushed) :
                last[1].pushed[k].depth = last[1].depth + 1

\* Two rays were just pushed at the depth cap.
C5_Witness ==
    /\ last # Null
    /\ config.maxRayDepth >= 2
    /\ Len(last[1].pushed) = 2
    /\ last[1].pushed[1].depth = config.maxRayDepth
    /\ queue[Len(queue)].depth = config.maxRayDepth

\* C6: the iteration that dequeues a ray at depth >= maxRayDepth tests no
\* intersection, records no segment, enqueues nothing and adds the ray's
\* brightnessS + brightnessP to the truncation total.
C6_DepthCapSilent ==
    [][(pc = "loop" /\ queue # <<>> /\ Head(queue).depth >= config.maxRayDepth)
         => /\ queue' = Tail(queue)
            /\ allSegments' = allSegments
            /\ totalTruncation' = RAdd(totalTruncation, combined(Head(queue).ray))
            /\ last'[1].outcome = "depthCap"
            /\ last'[1].hit = Null]_vars

\* A bright ray that had an element ahead of it was cut at a cap of 1 or more.
C6_Witness ==
    /\ last # Null
    /\ last[1].outcome = "depthCap"
    /\ last[1].depth >= 1
    /\ ~RLt(combined(last[1].ray), config.minBrightness)
    /\ findNearestIntersection(tracerElements, last[1].ray) # Null

\* C7: the iteration that dequeues a ray with brightnessS + brightnessP below
\* minBrightness records no segment, enqueues nothing and adds exactly that
\* brightness to the truncation total.
C7_FloorDrop ==
    [][(pc = "loop" /\ queue # <<>>
          /\ RLt(combined(Head(queue).ray), config.minBrightness))
         => /\ queue' = Tail(queue)
            /\ allSegments' = allSegments
            /\ totalTruncation' = RAdd(totalTruncation, combined(Head(queue).ray))]_vars

\* The ray of brightness 0.005 with a mirror ahead was dropped below the depth
\* cap: no segment, truncation 0.005.
C7_Witness ==
    /\ last # Null
    /\ last[1].outcome = "floor"
    /\ combined(last[1].ray) = Rat(1, 200)
    /\ config.minBrightness = Rat(1, 100)
    /\ totalTruncation = Rat(1, 200)
    /\ allSegments = <<>>
    /\ queue = <<>>
    /\ findNearestIntersection(tracerElements, last[1].ray) # Null

\* C8 as stated: no entry of the work queue is below the brightness floor.
C8_NoSubFloorEntry ==
    \A k \in 1 .. Len(queue) : ~RLt(combined(queue[k].ray), config.minBrightness)

\* C8: a ray below the brightness floor can enter the queue, seeded from
\* emission or pushed from an interaction result, but it is never traced: no
\* recorded segment other than the observer's half-bright extension has
\* brightnessS + brightnessP < minBrightness.
C8_SubFloorNeverTraced ==
    \A k \in 1 .. Len(allSegments) :
        \/ allSegments[k].isExtension /\ allSegments[k].isObserved
        \/ ~RLt(RAdd(allSegments[k].brightnessS, allSegments[k].brightnessP),
                config.minBrightness)

\* A ray that an interaction pushed below the floor was dequeued and dropped
\* after its parent's segment had been recorded.
C8_Witness ==
    /\ last # Null
    /\ last[1].outcome = "floor"
    /\ last[1].depth >= 1
    /\ last[1].depth < config.maxRayDepth
    /\ allSegments # <<>>
    /\ findNearestIntersection(tracerElements, last[1].ray) = Null

\* The ray meets a glass surface from inside beyond the critical angle.
totalInternalReflection(ray, hit) ==
    /\ hit.element.category = "glass"
    /\ RGt(dot(ray.direction, hit.normal), Zero)
    /\ RGt(RMul(hit.element.refIndex, RAbs(cross(ray.direction, hit.normal))), One)

nonNegative(ray) == RGe(ray.brightnessS, Zero) /\ RGe(ray.brightnessP, Zero)

\* C9: every emitted, enqueued and produced ray has brightnessS >= 0 and
\* brightnessP >= 0, and the rays an interaction produces sum to at most the
\* incident ray's brightness: to exactly that for a mirror, a beam splitter and
\* total internal reflection, and to nothing for a blocker.
C9_BrightnessBounded ==
    /\ \A k \in 1 .. Len(initialRays) : nonNegative(initialRays[k])
    /\ \A k \in 1 .. Len(queue) : nonNegative(queue[k].ray)
    /\ last # Null
          => /\ \A k \in 1 .. Len(last[1].pushed) : nonNegative(last[1].pushed[k].ray)
             /\ RLe(sumCombined(last[1].pushed), combined(last[1].ray))
             /\ last[1].hit # Null
                   => /\ (\/ last[1].hit[1].element.type \in {"Mirror", "BeamSplitter"}
                          \/ totalInternalReflection(last[1].ray, last[1].hit[1]))
                         => sumCombined(last[1].pushed) = combined(last[1].ray)
                      /\ last[1].hit[1].element.category = "blocker"
                         => last[1].pushed = <<>>

\* A ray of positive brightness was just reflected totally inside the glass.
C9_Witness ==
    /\ last # Null
    /\ last[1].hit # Null
    /\ totalInternalReflection(last[1].ray, last[1].hit[1])
    /\ Len(last[1].pushed) = 1
    /\ RGt(combined(last[1].ray), Zero)
    /\ Len(queue) >= 1

\* The kinds whose checkRayIntersection turns the normal towards the ray.
FacingKinds == {"Mirror", "BeamSplitter", "IdealMirror", "Blocker", "Aperture"}

\* The kinds whose checkRayIntersection returns the surface's own normal.
GeometricKinds == {"PlaneGlass", "IdealLens", "CircleGlass"}

\* The surface's own normal at a hit point: the left-hand normal of p1 -> p2,
\* or for the circle the direction from the centre to the point.
geometricNormal(e, p) ==
    IF e.type = "CircleGlass" THEN normalize(subtract(p, e.p1))
    ELSE segmentNormal(segment(e.p1, e.p2))

\* C10 as stated: every intersection result of every kind has
\* dot(normal, ray.direction) < 0.
C10_NormalFacesRay ==
    (pStage # "new" /\ pHit # Null)
        => RLt(dot(pHit[1].normal, pRay.direction), Zero)

\* C10: the intersection results of the segment mirrors, beam splitter, ideal
\* mirror, line blocker and aperture have dot(normal, ray.direction) < 0
\* whichever side the ray arrives from, and those of the circle blocker
\* dot(normal, ray.direction) <= 0 (0 for a tangent ray); the glass kinds and
\* the ideal lens return the surface's own normal, the same for both sides.
C10_NormalByKind ==
    (pStage # "new" /\ pHit # Null)
        => /\ pElement.type \in FacingKinds
                => RLt(dot(pHit[1].normal, pRay.direction), Zero)
           /\ pElement.type = "CircleBlocker"
                => RLe(dot(pHit[1].normal, pRay.direction), Zero)
           /\ pElement.type \in GeometricKinds
                => pHit[1].normal = geometricNormal(pElement, pHit[1].point)

\* A mirror hit from the side its own normal points away from: the returned
\* normal is the turned one.
C10_Witness ==
    /\ pStage = "checked"
    /\ pHit # Null
    /\ pElement.type = "Mirror"
    /\ pHit[1].normal = negate(segmentNormal(segment(pElement.p1, pElement.p2)))
    /\ RLt(dot(pHit[1].normal, pRay.direction), Zero)

\* The positions in the tracer's element list of the elements that are not
\* light sources and that the ray hits.
hitPositions(ray) ==
    {k \in 1 .. Len(tracerElements) :
        /\ tracerElements[k].category # "lightSource"
        /\ checkRayIntersection(tracerElements[k], ray) # Null}

hitAt(ray, k) == checkRayIntersection(tracerElements[k], ray)[1]

\* C11: for every dequeued ray that is traced, the nearest intersection is
\* null exactly when no element other than a light source is hit; otherwise
\* it is the hit of the element at the earliest position among those with the
\* smallest t, and its element is never a light source.
C11_NearestFirst ==
    (last # Null /\ last[1].outcome \in {"hit", "escaped"})
        => /\ (last[1].hit = Null) <=> (hitPositions(last[1].ray) = {})
           /\ last[1].hit # Null =>
                /\ last[1].hit[1].element.category # "lightSource"
                /\ \E k \in hitPositions(last[1].ray) :
                      /\ last[1].hit[1] = hitAt(last[1].ray, k)
                      /\ \A m \in hitPositions(last[1].ray) :
                            /\ RLe(hitAt(last[1].ray, k).t, hitAt(last[1].ray, m).t)
                            /\ hitAt(last[1].ray, m).t = hitAt(last[1].ray, k).t
                                  => k <= m

\* A ray that meets a mirror and a later blocker at the same t, with a light
\* source in the list: the mirror is the hit and the ray is reflected.
C11_Witness ==
    /\ last # Null
    /\ last[1].hit # Null
    /\ last[1].hit[1].element.type = "Mirror"
    /\ \E k, m \in hitPositions(last[1].ray) :
          /\ k < m
          /\ tracerElements[k] = last[1].hit[1].element
          /\ hitAt(last[1].ray, m).t = last[1].hit[1].t
    /\ tracerElements[1].category = "lightSource"
    /\ Len(last[1].pushed) = 1

forwardOf(segments) == SelectSeq(segments, LAMBDA s : ~s.isExtension)
extensionsOf(segments) == SelectSeq(segments, LAMBDA s : s.isExtension)

\* Where the forward segment of a traced ray ends: the hit point, or 10000
\* units along the direction when nothing is hit.
forwardEnd(entry) ==
    IF entry.hit # Null THEN entry.hit[1].point
    ELSE add(entry.ray.origin, scale(entry.ray.direction, FarDistance))

\* C12: a dequeued ray that is not truncated records exactly one forward
\* segment, from its origin to the hit point or 10000 units along its
\* direction; in "extended" and "images" mode it also records exactly one
\* backward extension of 10000 units from its origin if and only if its gap
\* flag is false, hit or not; in "rays" mode no extension is ever recorded.
C12_SegmentsPerRay ==
    /\ (last # Null /\ last[1].outcome \in {"hit", "escaped"}) =>
          /\ Len(forwardOf(last[1].segments)) = 1
          /\ forwardOf(last[1].segments)[1].p1 = last[1].ray.origin
          /\ forwardOf(last[1].segments)[1].p2 = forwardEnd(last[1])
          /\ config.mode \in {"extended", "images"} =>
                /\ Len(extensionsOf(last[1].segments))
                      = (IF last[1].ray.gap THEN 0 ELSE 1)
                /\ \A k \in 1 .. Len(extensionsOf(last[1].segments)) :
                      /\ extensionsOf(last[1].segments)[k].p1 = last[1].ray.origin
                      /\ extensionsOf(last[1].segments)[k].p2
                            = add(last[1].ray.origin,
                                  scale(last[1].ray.direction, RNeg(FarDistance)))
    /\ config.mode = "rays" => extensionsOf(allSegments) = <<>>

\* An escaping ray without the gap flag in "images" mode: one forward segment
\* and one backward extension.
C12_Witness ==
    /\ last # Null
    /\ last[1].outcome = "escaped"
    /\ ~last[1].ray.gap
    /\ config.mode = "images"
    /\ Len(last[1].segments) = 2
    /\ last[1].segments[2].isExtension

\* Whether processRayEntry traces the entry instead of cutting it off.
traced(entry) ==
    /\ entry.depth < config.maxRayDepth
    /\ ~RLt(RAdd(entry.ray.brightnessS, entry.ray.brightnessP), config.minBrightness)

\* The entries a hit must add to the queue: the primary outgoing ray unless the
\* result is absorbed, then every ray of newRays, all one level deeper.
enqueuedFor(entry, result) ==
    (IF result.isAbsorbed THEN <<>>
     ELSE << [ray |-> result.outgoingRay[1], depth |-> entry.depth + 1] >>)
    \o [k \in 1 .. Len(result.newRays) |->
            [ray |-> result.newRays[k], depth |-> entry.depth + 1]]

\* What one loop iteration on a traced entry must leave in the queue.
queueAfter(entry, hit) ==
    IF hit = Null THEN Tail(queue)
    ELSE Tail(queue) \o enqueuedFor(entry, onRayIncident(hit[1].element, entry.ray, hit[1]))

\* C13: a loop iteration on a traced entry that hits an element appends to the
\* queue the primary outgoing ray of that element's interaction at depth + 1
\* exactly when the result is not absorbed, then every ray of newRays at
\* depth + 1, and nothing else; a hit on a blocker (line, circle, aperture)
\* appends nothing.
C13_EnqueueOnHit ==
    [][(pc = "loop" /\ queue # <<>> /\ traced(Head(queue)))
          => /\ queue' = queueAfter(Head(queue),
                            findNearestIntersection(tracerElements, Head(queue).ray))
             /\ (last'[1].hit # Null
                    /\ last'[1].hit[1].element.category = "blocker")
                  => queue' = Tail(queue)]_vars

\* A ray entering the glass: the refracted ray and the Fresnel reflection are
\* both at the back of the queue, one level deeper.
C13_Witness ==
    /\ last # Null
    /\ last[1].outcome = "hit"
    /\ last[1].hit[1].element.type = "PlaneGlass"
    /\ Len(last[1].pushed) = 2
    /\ Len(queue) >= 2
    /\ queue[Len(queue) - 1].depth = last[1].depth + 1
    /\ queue[Len(queue)].depth = last[1].depth + 1
    /\ queue[Len(queue)].ray.gap
    /\ ~queue[Len(queue) - 1].ray.gap

\* C14: the queue is first in, first out.  At every point of a trace the
\* depths along the queue are non-decreasing and span at most two consecutive
\* values; each loop iteration removes the front entry and adds the new ones
\* at the back; the depths of the dequeued entries never decrease; and the
\* segments of an entry are appended behind those of all entries before it.
C14_BreadthFirst ==
    /\ [](/\ \A k \in 1 .. Len(queue) - 1 : queue[k].depth <= queue[k + 1].depth
          /\ queue # <<>> => queue[Len(queue)].depth - queue[1].depth <= 1)
    /\ [][(pc = "loop" /\ queue # <<>>)
            => /\ last'[1].ray = Head(queue).ray
               /\ last'[1].depth = Head(queue).depth
               /\ last # Null => last[1].depth <= last'[1].depth
               /\ Len(queue') >= Len(queue) - 1
               /\ SubSeq(queue', 1, Len(queue) - 1) = Tail(queue)
               /\ Len(allSegments') >= Len(allSegments)
               /\ SubSeq(allSegments', 1, Len(allSegments)) = allSegments
               /\ SubSeq(allSegments', Len(allSegments) + 1, Len(allSegments'))
                     = last'[1].segments]_vars

\* Both rays of a branching are waiting one level below an entry of the level
\* being processed.
C14_Witness ==
    /\ last # Null
    /\ Len(queue) >= 3
    /\ queue[1].depth = last[1].depth
    /\ queue[Len(queue)].depth = queue[1].depth + 1
    /\ queue[Len(queue) - 1].depth = queue[1].depth + 1
    /\ Len(allSegments) >= 1

\* What a dequeued entry adds to the truncation error: its combined brightness
\* when it is cut off at the depth cap or under the brightness floor.
droppedBrightness(entry) ==
    IF traced(entry) THEN Zero
    ELSE RAdd(entry.ray.brightnessS, entry.ray.brightnessP)

\* C15: the truncation total starts at 0, each loop iteration adds to it the
\* combined brightness of the dequeued ray when that ray is dropped at the
\* depth cap or under the brightness floor and adds nothing otherwise
\* (absorbed, escaped, or a Fresnel reflection not spawned), trace() returns
\* that total as truncationError, and the total is never negative.
C15_TruncationSum ==
    /\ [](/\ pc = "start" => totalTruncation = Zero
          /\ RGe(totalTruncation, Zero)
          /\ (pc = "done" /\ traceResult # Null)
                => traceResult[1].truncationError = totalTruncation)
    /\ [][/\ (pc = "loop" /\ queue # <<>>)
                => totalTruncation'
                     = RAdd(totalTruncation, droppedBrightness(Head(queue)))
          /\ ~(pc = "loop" /\ queue # <<>>)
                => totalTruncation' = totalTruncation]_vars

\* A finished trace that recorded segments and whose truncation error is
\* exactly the brightness of the one ray cut off at the depth cap.
C15_Witness ==
    /\ pc = "done"
    /\ traceResult # Null
    /\ RGt(traceResult[1].truncationError, Zero)
    /\ last # Null
    /\ last[1].outcome = "depthCap"
    /\ traceResult[1].truncationError = RAdd(last[1].ray.brightnessS, last[1].ray.brightnessP)
    /\ Len(allSegments) >= 2

\* C16: in "observer" mode with no observer configured, no recorded segment
\* is marked observed and no backward extension is recorded, at any point of
\* the trace, and the trace returns a result like any other.
C16_NoObserverNoOp ==
    (config.mode = "observer" /\ config.observer = Null)
        => /\ \A k \in 1 .. Len(allSegments) :
                 ~allSegments[k].isObserved /\ ~allSegments[k].isExtension
           /\ pc = "done" =>
                 /\ traceResult # Null
                 /\ traceResult[1].segments = allSegments
                 /\ traceResult[1].images = <<>>

\* A ray that an observer at (3, 5) would see on its way to a hit, traced in
\* "observer" mode without an observer.
C16_Witness ==
    /\ config.mode = "observer"
    /\ config.observer = Null
    /\ last # Null
    /\ last[1].hit # Null
    /\ observerSeesRay(TheObserver, last[1].ray, last[1].hit[1])
    /\ Len(last[1].segments) = 1
    /\ allSegments # <<>>

\* C17: a setObserver(position, radius) call leaves that observer in the
\* settings and the mode "observer" whatever the mode was; a clearObserver()
\* call leaves no observer and turns the mode to "rays" exactly when it was
\* "observer", any other mode staying as it was; both leave the scene dirty
\* with no cached result, and neither touches anything else in the settings
\* or the element list.
C17_ObserverSetters ==
    [][/\ \A o \in Observers :
            setObserver(o.position, o.radius)
                => /\ settings'.observer = Some(o)
                   /\ settings'.mode = "observer"
                   /\ dirty' /\ cachedResult' = Null
                   /\ settings' = [settings EXCEPT !.observer = settings'.observer,
                                                   !.mode = settings'.mode]
                   /\ elements' = elements
       /\ clearObserver
            => /\ settings'.observer = Null
               /\ settings'.mode = (IF settings.mode = "observer" THEN "rays"
                                    ELSE settings.mode)
               /\ dirty' /\ cachedResult' = Null
               /\ settings' = [settings EXCEPT !.observer = Null,
                                               !.mode = settings'.mode]
               /\ elements' = elements]_vars

\* setObserver was called on a scene with elements: the observer that only
\* setObserver can bring in is set, the mode is "observer" and the scene is
\* dirty.
C17_Witness ==
    /\ settings.observer = Some(SideObserver)
    /\ settings.mode = "observer"
    /\ dirty
    /\ cachedResult = Null
    /\ elements # <<>>


\* The rays of one pool of detectImages: the forward segments or the
\* extensions, in segment order.
poolRays(segments, extension) ==
    mapSegmentRays(SelectSeq(segments, LAMBDA s : s.isExtension = extension))

\* The pairs i < j of a pool, both among its first 500, that are not parallel.
crossingPairs(rays) ==
    {pr \in (1 .. Len(rays)) \X (1 .. Len(rays)) :
        /\ pr[1] < pr[2]
        /\ pr[2] <= MaxImagePool
        /\ ~LtTiny(RAbs(cross(rays[pr[1]].direction, rays[pr[2]].direction)))}

pairCrossing(rays, pr) ==
    crossing(rays[pr[1]], rays[pr[2]],
             cross(rays[pr[1]].direction, rays[pr[2]].direction))

pairCell(rays, pr) == gridKey(pairCrossing(rays, pr))

pairBefore(p, q) == p[1] < q[1] \/ (p[1] = q[1] /\ p[2] < q[2])

\* The pairs that are the first of their grid cell.
firstPairs(rays) ==
    {pr \in crossingPairs(rays) :
        \A q \in crossingPairs(rays) :
            pairBefore(q, pr) => pairCell(rays, q) # pairCell(rays, pr)}

\* The images of one type are, in order, the crossings of the first pairs of
\* the pool, each with the mean of the pair's brightness.
imagesOfPool(images, rays) ==
    /\ Len(images) = Cardinality(firstPairs(rays))
    /\ \A k \in 1 .. Len(images) :
          \E pr \in firstPairs(rays) :
              /\ Cardinality({q \in firstPairs(rays) : pairBefore(q, pr)}) = k - 1
              /\ images[k].position = pairCrossing(rays, pr)
              /\ images[k].brightness
                    = RDiv(RAdd(rays[pr[1]].brightness, rays[pr[2]].brightness), Two)
    /\ \A k, m \in 1 .. Len(images) :
          k # m => gridKey(images[k].position) # gridKey(images[m].position)

imagesOfType(images, imageType) ==
    SelectSeq(images, LAMBDA im : im.imageType = imageType)

\* C18: the images of a trace in "images" mode are the real ones followed by
\* the virtual ones; the real ones come from the forward segments and the
\* virtual ones from the extensions, each pool on its own: one image for every
\* grid cell of size 5 that a non-parallel pair i < j of the pool crosses in,
\* taken from the first such pair in segment order, with the mean of the two
\* segments' combined brightness.
C18_OneImagePerCell ==
    (pc = "done" /\ config.mode = "images")
        => /\ traceResult[1].images
                = imagesOfType(traceResult[1].images, "real")
                  \o imagesOfType(traceResult[1].images, "virtual")
           /\ imagesOfPool(imagesOfType(traceResult[1].images, "real"),
                           poolRays(allSegments, FALSE))
           /\ imagesOfPool(imagesOfType(traceResult[1].images, "virtual"),
                           poolRays(allSegments, TRUE))

\* A trace with a real and a virtual image in the same grid cell, in which a
\* pair of the forward pool crosses in a cell that an earlier pair had taken.
C18_Witness ==
    /\ pc = "done"
    /\ config.mode = "images"
    /\ imagesOfType(traceResult[1].images, "real") # <<>>
    /\ imagesOfType(traceResult[1].images, "virtual") # <<>>
    /\ firstPairs(poolRays(allSegments, FALSE))
          # crossingPairs(poolRays(allSegments, FALSE))
    /\ \E k, m \in 1 .. Len(traceResult[1].images) :
          /\ traceResult[1].images[k].imageType = "real"
          /\ traceResult[1].images[m].imageType = "virtual"
          /\ gridKey(traceResult[1].images[k].position)
                = gridKey(traceResult[1].images[m].position)

\* The forward segments of a trace, in order: the pool of the real images.
forwardPool == SelectSeq(allSegments, LAMBDA s : ~s.isExtension)

\* Whether a point of the line of a segment lies on the segment: not behind
\* p1 and not beyond p2.
aheadOfOrigin(p, seg) ==
    RGe(dot(subtract(p, seg.p1), subtract(seg.p2, seg.p1)), Zero)

withinSegment(p, seg) ==
    RLe(dot(subtract(p, seg.p1), subtract(seg.p2, seg.p1)),
        dot(subtract(seg.p2, seg.p1), subtract(seg.p2, seg.p1)))

\* C19: every image reported as "real" is the crossing of two forward segments
\* and lies on both of them: ahead of both ray origins, not on the backward
\* continuation of either line.
C19_RealImagesConverge ==
    (pc = "done" /\ config.mode = "images")
        => \A k \in 1 .. Len(traceResult[1].images) :
              traceResult[1].images[k].imageType = "real"
                => \E pr \in firstPairs(poolRays(allSegments, FALSE)) :
                      /\ pairCrossing(poolRays(allSegments, FALSE), pr)
                            = traceResult[1].images[k].position
                      /\ aheadOfOrigin(traceResult[1].images[k].position,
                                       forwardPool[pr[1]])
                      /\ aheadOfOrigin(traceResult[1].images[k].position,
                                       forwardPool[pr[2]])
                      /\ withinSegment(traceResult[1].images[k].position,
                                       forwardPool[pr[1]])
                      /\ withinSegment(traceResult[1].images[k].position,
                                       forwardPool[pr[2]])

\* ---- C20

\* The class of an element of a snapshot scene.
kindOf(element) ==
    (CHOOSE entry \in Range(KindCatalogue) : entry.element = element).kind

\* The discriminator a class declares for its serialized form: serializedType
\* where the class has one, its type otherwise.
declaredDiscriminator(element) ==
    IF "serializedType" \in DOMAIN element THEN element.serializedType
    ELSE element.type

\* C20: in every snapshot toJSON() returns, each element's record carries the
\* type discriminator of the element's own kind, one of the sixteen listed,
\* and two elements of different kinds never carry the same type value, so
\* the kind of each element can be told from its record.
C20_TypeDiscriminators ==
    (returned # Null /\ returned[1].op = "toJSON")
        => /\ Len(returned[1].result.elements) = Len(elements)
           /\ \A k \in 1 .. Len(elements) :
                 /\ returned[1].result.elements[k].type
                       \in {"PointSource", "Beam", "SingleRay", "Mirror", "ArcMirror",
                            "ParabolicMirror", "IdealMirror", "BeamSplitter",
                            "PlaneGlass", "CircleGlass", "Glass", "SphericalLens",
                            "IdealLens", "Blocker", "CircleBlocker", "Aperture"}
                 /\ returned[1].result.elements[k].type
                       = declaredDiscriminator(elements[k])
           /\ \A i, j \in 1 .. Len(elements) :
                 kindOf(elements[i]) # kindOf(elements[j])
                    => returned[1].result.elements[i].type
                          # returned[1].result.elements[j].type

\* ---- C21

\* The point half-way between the ray's origin and its hit.
midway(ray, intersection) ==
    point(RDiv(RAdd(ray.origin.x, intersection.point.x), Two),
          RDiv(RAdd(ray.origin.y, intersection.point.y), Two))

\* Whether a point lies strictly inside the glass: behind the boundary line of
\* a half-plane glass, closer to the centre than the radius of a circle glass,
\* strictly on the same side of every edge of a convex polygon glass.
strictlyInsideGlass(e, p) ==
    CASE e.type = "PlaneGlass" ->
            RLt(dot(subtract(p, e.p1), segmentNormal(segment(e.p1, e.p2))), Zero)
      [] e.type = "CircleGlass" ->
            RLt(distanceSquared(p, e.p1), distanceSquared(e.p1, e.p2))
      [] e.type = "Glass" ->
            \/ \A i \in 1 .. Len(PolygonGlass_vertices(e)) :
                  RGt(cross(subtract(PolygonGlass_edge(PolygonGlass_vertices(e), i).p2,
                                     PolygonGlass_edge(PolygonGlass_vertices(e), i).p1),
                            subtract(p, PolygonGlass_edge(PolygonGlass_vertices(e), i).p1)),
                      Zero)
            \/ \A i \in 1 .. Len(PolygonGlass_vertices(e)) :
                  RLt(cross(subtract(PolygonGlass_edge(PolygonGlass_vertices(e), i).p2,
                                     PolygonGlass_edge(PolygonGlass_vertices(e), i).p1),
                            subtract(p, PolygonGlass_edge(PolygonGlass_vertices(e), i).p1)),
                      Zero)

\* The ray reaches its hit through the interior of the glass.
throughInterior(e, ray, intersection) ==
    strictlyInsideGlass(e, midway(ray, intersection))

\* C21: at every boundary hit of a half-plane, circle or polygon glass the
\* interaction is the Snell/Fresnel one for the side the ray occupies, with
\* the normal facing the ray: (n1, n2) = (refIndex, 1) for a ray that reaches
\* the hit through the interior, also when it starts on the boundary, and
\* (1, refIndex) for a ray arriving from outside.
C21_MediaBySide ==
    (pStage = "incident" /\ pElement.type \in {"PlaneGlass", "CircleGlass", "Glass"})
        => pResult[1]
             = IF throughInterior(pElement, pRay, pHit[1])
               THEN refractAtBoundary(pRay, pHit[1], facingRay(pHit[1].normal, pRay),
                                      pElement.refIndex, One)
               ELSE refractAtBoundary(pRay, pHit[1], facingRay(pHit[1].normal, pRay),
                                      One, pElement.refIndex)

\* ---- C22

\* The share of a brightness that did not go into the primary ray.
reflectedShare(incident, primary) == RSub(One, RDiv(primary, incident))

\* The secondary rays that go with reflectances Rs and Rp: the reflected ray
\* with gap = true when it carries more than the threshold, none otherwise.
secondaryFor(ray, intersection, Rs, Rp) ==
    IF RGt(RAdd(RMul(Rs, ray.brightnessS), RMul(Rp, ray.brightnessP)), Rat(1, 100))
    THEN << SimulationRay(intersection.point,
                          reflectedDirection(ray.direction, intersection.normal),
                          RMul(Rs, ray.brightnessS), RMul(Rp, ray.brightnessP),
                          TRUE, FALSE, ray.wavelength) >>
    ELSE <<>>

\* C22: a half-plane, circle or polygon glass never absorbs.  Its result is
\* either one reflected ray with the whole incident brightnessS and
\* brightnessP and no secondary ray, or a primary ray with (1 - Rs) and
\* (1 - Rp) of them, Rs and Rp in [0, 1], and as secondary the reflected ray
\* with Rs * brightnessS and Rp * brightnessP and gap = true exactly when
\* these sum to more than 0.01.  At normal incidence the primary ray keeps
\* the incident direction and Rs = Rp = ((n1 - n2) / (n1 + n2))^2.
C22_FresnelSplit ==
    (pStage = "incident" /\ pElement.type \in {"PlaneGlass", "CircleGlass", "Glass"})
        => /\ ~pResult[1].isAbsorbed
           /\ pResult[1].outgoingRay # Null
           /\ pResult[1].outgoingRay[1].origin = pHit[1].point
           /\ ~pResult[1].outgoingRay[1].gap
           /\ \/ /\ pResult[1].outgoingRay[1].direction
                      = reflectedDirection(pRay.direction, pHit[1].normal)
                 /\ pResult[1].outgoingRay[1].brightnessS = pRay.brightnessS
                 /\ pResult[1].outgoingRay[1].brightnessP = pRay.brightnessP
                 /\ pResult[1].newRays = <<>>
              \/ /\ RGe(reflectedShare(pRay.brightnessS,
                                       pResult[1].outgoingRay[1].brightnessS), Zero)
                 /\ RLe(reflectedShare(pRay.brightnessS,
                                       pResult[1].outgoingRay[1].brightnessS), One)
                 /\ RGe(reflectedShare(pRay.brightnessP,
                                       pResult[1].outgoingRay[1].brightnessP), Zero)
                 /\ RLe(reflectedShare(pRay.brightnessP,
                                       pResult[1].outgoingRay[1].brightnessP), One)
                 /\ pResult[1].newRays
                      = secondaryFor(pRay, pHit[1],
                            reflectedShare(pRay.brightnessS,
                                           pResult[1].outgoingRay[1].brightnessS),
                            reflectedShare(pRay.brightnessP,
                                           pResult[1].outgoingRay[1].brightnessP))
           /\ RAbs(dot(pRay.direction, pHit[1].normal)) = One
                => /\ pResult[1].outgoingRay[1].direction = pRay.direction
                   /\ reflectedShare(pRay.brightnessS,
                                     pResult[1].outgoingRay[1].brightnessS)
                        = fresnelTerm(pElement.refIndex, One)
                   /\ reflectedShare(pRay.brightnessP,
                                     pResult[1].outgoingRay[1].brightnessP)
                        = fresnelTerm(pElement.refIndex, One)

\* ---- C23

\* Whether r is the mirror image of direction d in the line of the segment
\* p1 -> p2: the same component along the segment, the opposite one across.
mirrored(d, r, p1, p2) ==
    /\ dot(r, subtract(p2, p1)) = dot(d, subtract(p2, p1))
    /\ dot(r, segmentNormal(segment(p1, p2)))
          = RNeg(dot(d, segmentNormal(segment(p1, p2))))

\* C23: a beam splitter never absorbs.  Its primary ray is the transmitted
\* one: incident direction, gap = false, transRatio of the incident brightness
\* per polarization.  Its only secondary ray is the reflected one: mirrored
\* direction, gap = true, (1 - transRatio) of the incident brightness.  Both
\* start at the hit point and their brightnesses add up to the incident ones.
C23_BeamSplitterSplits ==
    (pStage = "incident" /\ pElement.type = "BeamSplitter")
        => /\ ~pResult[1].isAbsorbed
           /\ pResult[1].outgoingRay # Null
           /\ pResult[1].outgoingRay[1].origin = pHit[1].point
           /\ pResult[1].outgoingRay[1].direction = pRay.direction
           /\ pResult[1].outgoingRay[1].gap = FALSE
           /\ pResult[1].outgoingRay[1].brightnessS
                 = RMul(pElement.transRatio, pRay.brightnessS)
           /\ pResult[1].outgoingRay[1].brightnessP
                 = RMul(pElement.transRatio, pRay.brightnessP)
           /\ Len(pResult[1].newRays) = 1
           /\ pResult[1].newRays[1].origin = pHit[1].point
           /\ mirrored(pRay.direction, pResult[1].newRays[1].direction,
                       pElement.p1, pElement.p2)
           /\ pResult[1].newRays[1].gap = TRUE
           /\ pResult[1].newRays[1].brightnessS
                 = RMul(RSub(One, pElement.transRatio), pRay.brightnessS)
           /\ pResult[1].newRays[1].brightnessP
                 = RMul(RSub(One, pElement.transRatio), pRay.brightnessP)
           /\ RAdd(pResult[1].outgoingRay[1].brightnessS,
                   pResult[1].newRays[1].brightnessS) = pRay.brightnessS
           /\ RAdd(pResult[1].outgoingRay[1].brightnessP,
                   pResult[1].newRays[1].brightnessP) = pRay.brightnessP

\* The splitter of transmission 1/4 has split an oblique ray that came down
\* on it from above: 1/8 goes on, 3/8 is reflected upwards.
C23_Witness ==
    /\ pStage = "incident"
    /\ pElement.type = "BeamSplitter"
    /\ pRay.direction = DownSteep
    /\ pResult[1].outgoingRay[1].brightnessS = Rat(1, 8)
    /\ pResult[1].newRays[1].brightnessS = Rat(3, 8)
    /\ pResult[1].newRays[1].direction = UpSteep

\* ---- C24

\* The unit vector along the optical axis in the ray's direction of travel.
axisOfTravel(e, ray) ==
    negate(facingRay(segmentNormal(segment(e.p1, e.p2)), ray))

\* The slope of a direction relative to the optical axis, measured in the
\* direction of travel: the advance along the segment p1 -> p2 per unit of
\* advance along the axis.
travelSlope(e, ray, direction) ==
    RDiv(dot(direction, normalize(subtract(e.p2, e.p1))),
         dot(direction, axisOfTravel(e, ray)))

\* The signed height of a point of the lens from its centre, along p1 -> p2.
heightOnLens(e, p) ==
    dot(subtract(p, segmentMidpoint(segment(e.p1, e.p2))),
        normalize(subtract(e.p2, e.p1)))

\* C24: a ray that crosses an ideal lens, from either side, goes on to the
\* other side with its slope relative to the optical axis, in its direction of
\* travel, changed by -h/f, h the signed height of the hit, and with its
\* brightness unchanged.
C24_ThinLens ==
    (/\ pStage = "incident"
     /\ pElement.type = "IdealLens"
     /\ dot(pRay.direction, segmentNormal(segment(pElement.p1, pElement.p2))) # Zero)
        => /\ ~pResult[1].isAbsorbed
           /\ pResult[1].outgoingRay # Null
           /\ pResult[1].outgoingRay[1].origin = pHit[1].point
           /\ pResult[1].outgoingRay[1].brightnessS = pRay.brightnessS
           /\ pResult[1].outgoingRay[1].brightnessP = pRay.brightnessP
           /\ RGt(dot(pResult[1].outgoingRay[1].direction,
                      axisOfTravel(pElement, pRay)), Zero)
           /\ travelSlope(pElement, pRay, pResult[1].outgoingRay[1].direction)
                 = RSub(travelSlope(pElement, pRay, pRay.direction),
                        RDiv(heightOnLens(pElement, pHit[1].point),
                             pElement.focalLength))

\* ---- C25

\* The focal point of an ideal mirror for a ray: on the axis through the
\* midpoint, at the focal length in front of the side the ray hits.
focalPoint(e, ray) ==
    add(segmentMidpoint(segment(e.p1, e.p2)),
        scale(facingRay(segmentNormal(segment(e.p1, e.p2)), ray), e.focalLength))

\* Whether direction d leads from point p towards point q.
leadsTo(d, p, q) ==
    /\ cross(d, subtract(q, p)) = Zero
    /\ RGt(dot(d, subtract(q, p)), Zero)

\* C25: an ideal curved mirror keeps the brightness and reflects at the hit
\* point; a ray that arrives perpendicular to the segment leaves towards the
\* focal point, whatever its height, and a ray that hits the midpoint leaves
\* as from a flat mirror.
C25_MirrorEquation ==
    (/\ pStage = "incident"
     /\ pElement.type = "IdealMirror"
     /\ dot(pRay.direction, segmentNormal(segment(pElement.p1, pElement.p2))) # Zero)
        => /\ ~pResult[1].isAbsorbed
           /\ pResult[1].outgoingRay # Null
           /\ pResult[1].outgoingRay[1].origin = pHit[1].point
           /\ pResult[1].outgoingRay[1].brightnessS = pRay.brightnessS
           /\ pResult[1].outgoingRay[1].brightnessP = pRay.brightnessP
           /\ dot(pRay.direction, subtract(pElement.p2, pElement.p1)) = Zero
                => leadsTo(pResult[1].outgoingRay[1].direction, pHit[1].point,
                           focalPoint(pElement, pRay))
           /\ pHit[1].point = segmentMidpoint(segment(pElement.p1, pElement.p2))
                => mirrored(pRay.direction, pResult[1].outgoingRay[1].direction,
                            pElement.p1, pElement.p2)

\* ---- C26

\* The emitted rays that start at a point, in emission order.
raysFrom(rays, origin) == SelectSeq(rays, LAMBDA r : r.origin = origin)

\* C26: a beam emits from max(1, round(length * density)) positions; at each
\* of them it emits 1 + 2 * floor(halfAngle / angularStep) rays of equal
\* brightness, and their brightnesses add up to the brightness of the
\* position without a fan, brightness / density (not clamped here).
C26_BeamEnergy ==
    (pc # "start" /\ tracerElements[1].type = "Beam")
        => /\ Cardinality({initialRays[k].origin : k \in 1 .. Len(initialRays)})
                = IF Round(RMul(distance(tracerElements[1].p1, tracerElements[1].p2),
                                config.rayDensity)) > 1
                  THEN Round(RMul(distance(tracerElements[1].p1, tracerElements[1].p2),
                                  config.rayDensity))
                  ELSE 1
           /\ \A k \in 1 .. Len(initialRays) :
                 /\ Len(raysFrom(initialRays, initialRays[k].origin))
                       = 1 + 2 * Floor(BeamSource_fanRatio(tracerElements[1],
                                           sweepSteps(config.rayDensity)))
                 /\ combined(initialRays[k])
                       = RDiv(RDiv(tracerElements[1].brightness, config.rayDensity),
                              Num(1 + 2 * Floor(BeamSource_fanRatio(tracerElements[1],
                                                   sweepSteps(config.rayDensity)))))
                 /\ sumCombined(seedQueue(raysFrom(initialRays, initialRays[k].origin)))
                       = RDiv(tracerElements[1].brightness, config.rayDensity)

\* ---- C27

\* Whether p and p3 lie strictly on the same side of the chord p1 -> p2: the
\* chord cuts the circle into its two arcs, so a point of the circle is on
\* the arc through p3 exactly when it is on p3's side.
sameSideOfChord(e, p) ==
    RSign(cross(subtract(e.p2, e.p1), subtract(p, e.p1)))
        = RSign(cross(subtract(e.p2, e.p1), subtract(e.p3, e.p1)))

\* The points where the ray meets the circle through p1, p2 and p3, far
\* enough from the origin to count, in ascending order of t.
circleCrossings(e, ray) ==
    SelectSeq(rayCircleIntersections(ray.origin, ray.direction,
                                     ArcMirror_getArcGeometry(e)[1]),
              LAMBDA h : ~Lt1e6(distanceSquared(h.point, ray.origin)))

\* C27: for p1, p2, p3 not on one line and a ray that meets the circle in
\* neither p1 nor p2, isOnArc accepts a crossing exactly when it lies on the
\* arc from p1 to p2 through p3, whatever the length of the arc and wherever
\* it lies with respect to the jump of atan2: each crossing is accepted iff
\* it is on p3's side of the chord, and the hit is the first crossing on that
\* side, or none.
C27_ArcSpan ==
    (/\ pStage # "new"
     /\ pElement.type = "ArcMirror"
     /\ ArcMirror_getArcGeometry(pElement) # Null
     /\ \A i \in DOMAIN circleCrossings(pElement, pRay) :
            circleCrossings(pElement, pRay)[i].point \notin {pElement.p1, pElement.p2})
        => /\ \A i \in DOMAIN circleCrossings(pElement, pRay) :
                  ArcMirror_isOnArc(pElement, circleCrossings(pElement, pRay)[i].point,
                                    ArcMirror_getArcGeometry(pElement)[1].center)
                      <=> sameSideOfChord(pElement, circleCrossings(pElement, pRay)[i].point)
           /\ With(SelectSeq(circleCrossings(pElement, pRay),
                             LAMBDA h : sameSideOfChord(pElement, h.point)),
                   LAMBDA onArc :
                  IF onArc = <<>> THEN pHit = Null
                  ELSE /\ pHit # Null
                       /\ pHit[1].point = onArc[1].point
                       /\ pHit[1].t = onArc[1].t)

\* An arc of more than half the circle that runs through the jump of atan2,
\* from (3, 4) through (-5, 0) to (4, -3), has stopped the ray to (0, -5); and
\* the facing normal there points back to the centre.
C27_Witness ==
    /\ pStage = "incident"
    /\ pElement.type = "ArcMirror"
    /\ pElement.p1 = Pt(3, 4)
    /\ pElement.p2 = Pt(4, -3)
    /\ pElement.p3 = Pt(-5, 0)
    /\ pRay.origin = Pt(0, 0)
    /\ pHit # Null
    /\ pHit[1].point = Pt(0, -5)
    /\ pHit[1].normal = Pt(0, 1)
    /\ pResult[1].outgoingRay[1].direction = Pt(0, 1)

\* ---- C28

\* C28: a segment mirror reflects by the law of reflection from either side.
\* The normal n of the hit is the unit vector across the segment that faces
\* the ray; the outgoing ray starts at the hit point with direction
\* d - 2(d.n)n, the incident brightnessS and brightnessP and gap = false, and
\* nothing else comes out.  The mirror from (-10, 10) to (10, 10) sends the ray
\* from (0, 0) towards (0, 20) back from (0, 10) with direction (0, -1).
C28_LawOfReflection ==
    (pStage = "incident" /\ pElement.type = "Mirror")
        => /\ dot(pHit[1].normal, pHit[1].normal) = One
           /\ dot(pHit[1].normal, subtract(pElement.p2, pElement.p1)) = Zero
           /\ RLt(dot(pHit[1].normal, pRay.direction), Zero)
           /\ ~pResult[1].isAbsorbed
           /\ pResult[1].newRays = <<>>
           /\ pResult[1].outgoingRay # Null
           /\ pResult[1].outgoingRay[1].origin = pHit[1].point
           /\ pResult[1].outgoingRay[1].direction
                 = subtract(pRay.direction,
                            scale(pHit[1].normal,
                                  RMul(Two, dot(pRay.direction, pHit[1].normal))))
           /\ pResult[1].outgoingRay[1].brightnessS = pRay.brightnessS
           /\ pResult[1].outgoingRay[1].brightnessP = pRay.brightnessP
           /\ pResult[1].outgoingRay[1].gap = FALSE
           /\ (pElement.p1 = Pt(-10, 10) /\ pElement.p2 = Pt(10, 10)
                  /\ pRay.origin = Pt(0, 0) /\ pRay.direction = Up)
                 => /\ pHit[1].point = Pt(0, 10)
                    /\ pResult[1].outgoingRay[1].direction = Pt(0, -1)

\* The tilted mirror has turned the ray that came straight down on it at
\* (0, 10) to the direction (-24/25, -7/25).
C28_Witness ==
    /\ pStage = "incident"
    /\ pElement.type = "Mirror"
    /\ pElement.p1 = Pt(-3, 6)
    /\ pRay.origin = Pt(0, 16)
    /\ pRay.direction = Down
    /\ pHit # Null
    /\ pHit[1].point = Pt(0, 10)
    /\ pHit[1].normal = point(Rat(-4, 5), Rat(3, 5))
    /\ pResult[1].outgoingRay[1].direction = point(Rat(-24, 25), Rat(-7, 25))

\* ---- C29

\* C29: the dirty flag is false exactly when there is a cached result.  A new
\* scene is dirty and has none; in every state reached from there the flag is
\* set iff the result is missing; and a simulate() or getImages() call leaves
\* the scene clean with a result stored, which is the one it returned.
C29_DirtyIffNoCache ==
    /\ (dirty = TRUE /\ cachedResult = Null)
    /\ []((dirty = FALSE) <=> (cachedResult # Null))
    /\ [][simCalls' = simCalls + 1
            => (~dirty' /\ cachedResult' # Null
                   /\ cachedResult'[1] = returned'[1].result)]_vars

\* A scene that was simulated, changed by adding the mirror (dirty again, no
\* result), and simulated once more: clean, with a result of several segments.
C29_Witness ==
    /\ ~dirty
    /\ cachedResult # Null
    /\ simCalls = 1
    /\ elements = <<Lamp, MirrorTop>>
    /\ Len(cachedResult[1].segments) >= 2

\* ---- C30

\* Observer mode has its observer.
observerModeServed(s) == s.mode = "observer" => s.observer # Null

\* C30: in every reachable scene state whose mode is "observer" an observer
\* is configured, whatever calls of the constructor, setMode, updateSettings,
\* setObserver and clearObserver led there.
C30_ObserverModeHasObserver == observerModeServed(settings)

\* C30, as the scene keeps it: a step that ends in observer mode with no
\* observer is never a setObserver or a clearObserver, and when it starts
\* from a scene where observer mode has its observer it is not a setMode to
\* another mode, a setMode to "observer" while an observer is configured, a
\* setRayDensity, a change of the element list, an invalidate, a simulate or a
\* getImages either.  Only the settings given to the constructor,
\* setMode("observer") on a scene without observer and updateSettings can
\* bring about observer mode with no observer.
C30_ObserverKeptBySetters ==
    [][~observerModeServed(settings')
          => /\ ~(\E o \in Observers : setObserver(o.position, o.radius))
             /\ ~clearObserver
             /\ observerModeServed(settings)
                   => ~(\/ \E mode \in Modes :
                              /\ mode = "observer" => settings.observer # Null
                              /\ setMode(mode)
                        \/ \E density \in Densities : setRayDensity(density)
                        \/ \E element \in Range(SceneCatalogue) :
                              addElement(element) \/ removeElement(element.id)
                        \/ clearElements
                        \/ invalidate
                        \/ settings' = settings /\ (simulate \/ getImages))]_vars

\* A scene in observer mode with the observer that only setObserver brings
\* in, simulated: clean, with a result returned.
C30_Witness ==
    /\ settings.mode = "observer"
    /\ settings.observer = Some(SideObserver)
    /\ ~dirty
    /\ returned # Null
    /\ elements # <<>>
====
